---- MODULE Spec2Model ----
(***************************************************************************)
(* mimic-rs: a programmable HTTP mock server.  The model covers the        *)
(* expectation registry, the match engine, response creation, the bounded  *)
(* request log and the administrative handlers (setup, verify, reset).     *)
(*                                                                         *)
(* Strings that the code inspects character by character (paths) are       *)
(* sequences of one-character strings; strings it only compares (bodies,   *)
(* header values) are TLA+ strings.  Option<T> is a sequence of length 0   *)
(* (None) or 1 (Some).  HashMap<String, String> is a function whose DOMAIN *)
(* is the key set.                                                         *)
(***************************************************************************)
EXTENDS Integers, Sequences, FiniteSets, TLC

VARIABLES
    expectations,           \* MockServer.expectations: method -> Vec<MockExpectation>
    request_log,            \* MockServer.request_log: Vec<RequestRecord>
    max_request_log_size,   \* MockServer.max_request_log_size
    conditional_responses,  \* generator table: conditional_id -> ConditionalResponse
    spawned,                \* registrations handed to tokio::spawn, not yet run
    uuid,                   \* number of Uuid::new_v4() values drawn so far
    clock,                  \* logical Utc::now()
    pc,                     \* per task: position inside its current handler
    local,                  \* per task: the handler's local variables
    last,                   \* what the most recently completed call returned
    appended,               \* history: records pushed since the log was last cleared
    matched                 \* history: per expectation id, dispatches answered by it

vars == <<expectations, request_log, max_request_log_size, conditional_responses,
          spawned, uuid, clock, pc, local, last, appended, matched>>

(***************************************************************************)
(* Bounds of the model.                                                    *)
(***************************************************************************)
MaxUuid == 3            \* Uuid::new_v4() values drawn in one run
MaxDispatches == 3      \* requests dispatched in one run of SpecLedger
MatchDispatches == 1    \* requests dispatched in one run of SpecMatch
CondDispatches == 4     \* requests dispatched in one run of SpecCond
ConcDispatches == 2     \* requests dispatched in one run of SpecConc
WildDispatches == 1     \* requests dispatched in one run of SpecWild
MaxPathLen == 4         \* characters of a request path in SpecWild
DetailDispatches == 1   \* requests dispatched in one run of SpecDetails
ResponseDispatches == 1 \* requests dispatched in one run of SpecResponse
MaxGenerators == 2      \* ConditionalResponse objects created in one run of SpecGen
MaxCalls == 4           \* generate_response calls on one ConditionalResponse
CacheDispatches == 2    \* requests dispatched in one run of SpecCache
LockDispatches == 2     \* requests dispatched in one run of SpecLocks
MaxCapacity == 2        \* largest value given to with_max_log_size
NumTasks == 2           \* concurrent request-handling tasks

Tasks == 1..NumTasks

(***************************************************************************)
(* Option and map helpers.                                                 *)
(***************************************************************************)
None == <<>>
Some(x) == <<x>>
IsSome(o) == o # <<>>
Unwrap(o) == o[1]

EmptyMap == [k \in {} |-> ""]
MapOf(k, v) == [x \in {k} |-> v]
MapPut(m, k, v) == [x \in DOMAIN m \cup {k} |-> IF x = k THEN v ELSE m[x]]

\* str::to_uppercase on the method names of the model.
ToUppercase(s) ==
    CASE s = "get" -> "GET"
      [] s = "post" -> "POST"
      [] OTHER -> s

\* str::to_lowercase on the header names and values of the model.
ToLowercase(s) ==
    CASE s = "X-API-Key" -> "x-api-key"
      [] s = "X-Api-Key" -> "x-api-key"
      [] s = "X-API-KEY" -> "x-api-key"
      [] s = "AUTHORIZATION" -> "authorization"
      [] s = "K" -> "k"
      [] s = "Authorization" -> "authorization"
      [] s = "Content-Type" -> "content-type"
      [] OTHER -> s

\* str::contains(c) on a character sequence.
Contains(s, c) == \E i \in 1..Len(s) : s[i] = c

\* str::starts_with.
StartsWith(s, prefix) ==
    Len(prefix) <= Len(s) /\ SubSeq(s, 1, Len(prefix)) = prefix

(***************************************************************************)
(* The regex the code builds from a path spec: every '*' is replaced by    *)
(* ".*" and the result is wrapped in ^...$; no other character is escaped, *)
(* so '.' keeps its regex meaning (any character).                         *)
(***************************************************************************)
\* exp.path.replace('*', ".*")
RECURSIVE ReplaceStar(_)
ReplaceStar(path) ==
    IF path = <<>> THEN <<>>
    ELSE IF Head(path) = "*" THEN <<".", "*">> \o ReplaceStar(Tail(path))
    ELSE <<Head(path)>> \o ReplaceStar(Tail(path))

\* The nesting depth of the groups left open at the end of a pattern, or -1
\* when a ')' closes a group that was never opened.
RECURSIVE ParenDepth(_, _)
ParenDepth(re, depth) ==
    IF depth < 0 THEN -1
    ELSE IF re = <<>> THEN depth
    ELSE ParenDepth(Tail(re), depth + (IF Head(re) = "(" THEN 1
                                       ELSE IF Head(re) = ")" THEN -1 ELSE 0))

\* Regex::new accepting every pattern, a parenthesis standing for itself.
RegexNew_Lenient(regex_path) == Some(regex_path)

\* Regex::new(&format!("^{}$", regex_path)): Ok(program) or Err.  A '*' with
\* nothing before it to repeat, or an unbalanced parenthesis, is a syntax
\* error of the regex crate.
RegexNew(regex_path) ==
    IF \/ (regex_path # <<>> /\ Head(regex_path) = "*")
       \/ ParenDepth(regex_path, 0) # 0
    THEN None
    ELSE Some(regex_path)

\* Regex::is_match for the anchored program: atoms are a literal character
\* or '.', each optionally followed by '*'.
RECURSIVE IsMatch(_, _)
IsMatch(re, s) ==
    IF re = <<>> THEN s = <<>>
    ELSE LET atom == Head(re)
             starred == Len(re) >= 2 /\ re[2] = "*"
             fits(c) == atom = "." \/ atom = c
         IN IF starred
            THEN \/ IsMatch(SubSeq(re, 3, Len(re)), s)
                 \/ (s # <<>> /\ fits(Head(s)) /\ IsMatch(re, Tail(s)))
            ELSE s # <<>> /\ fits(Head(s)) /\ IsMatch(Tail(re), Tail(s))

(***************************************************************************)
(* Paths used by the model.                                                *)
(***************************************************************************)
PathRoot == <<"/">>
PathA == <<"/", "a">>
PathAB == <<"/", "a", "b">>
PathB == <<"/", "b">>
PathBA == <<"/", "b", "a">>
PathStar == <<"/", "*">>
PathAStar == <<"/", "a", "*">>

(***************************************************************************)
(* Response bodies: a JSON value or a text.                                *)
(***************************************************************************)
Json(key, n) == <<"json", key, n>>
Text(t) == <<"text", t, 0>>

(***************************************************************************)
(* The file system below resource_dir, as fs::read_to_string sees it:      *)
(* Some(content) or None for a file that cannot be read.  A content is its *)
(* text and, when serde_json parses it, the parsed value.                  *)
(***************************************************************************)
ReadToString(file_name) ==
    CASE file_name = "user.json" -> Some([text |-> "{ \"id\": 42 }", json |-> Some(Json("id", 42))])
      [] file_name = "notes.txt" -> Some([text |-> "plain notes", json |-> None])
      [] OTHER -> None

(***************************************************************************)
(* models/response.rs                                                      *)
(***************************************************************************)
\* impl Default for MockResponse
MockResponseDefault ==
    [status_code |-> 200, headers |-> EmptyMap, body |-> None, body_file |-> None,
     cached_file_content |-> None, cached_json_content |-> None,
     conditional_id |-> None]

\* MockResponse::new
MockResponseNew(status_code) == [MockResponseDefault EXCEPT !.status_code = status_code]

\* The insertion both with_json_body/with_json_file and
\* ResponseBuilder::ensure_content_type perform.
EnsureContentType(headers) ==
    IF "Content-Type" \in DOMAIN headers THEN headers
    ELSE MapPut(headers, "Content-Type", "application/json")

\* MockResponse::with_json_body
WithJsonBody(resp, body) ==
    [resp EXCEPT !.body = Some(body), !.headers = EnsureContentType(resp.headers)]

\* MockResponse::cache_file_content
CacheFileContent(resp, content) ==
    [resp EXCEPT !.cached_json_content = IF IsSome(content.json) THEN content.json ELSE @,
                 !.cached_file_content = Some(content.text)]

(***************************************************************************)
(* conditional/handler.rs.  The handlers are the closures of the tests and *)
(* the example: a closure is named, and Handler applies it.                *)
(***************************************************************************)
Handler(name, count) ==
    CASE name = "rate_limited" ->
            IF count <= 3
            THEN WithJsonBody(MockResponseNew(200), Json("calls", count))
            ELSE WithJsonBody(MockResponseNew(429), Json("error", 0))
      [] name = "counter" ->
            IF count <= 2
            THEN WithJsonBody(MockResponseNew(200), Json("count", count))
            ELSE WithJsonBody(MockResponseNew(429), Json("count", count))
      [] name = "status_cycle" ->
            IF count % 3 = 0 THEN WithJsonBody(MockResponseNew(200), Json("success", 0))
            ELSE IF count % 3 = 1 THEN WithJsonBody(MockResponseNew(404), Json("not found", 0))
            ELSE WithJsonBody(MockResponseNew(500), Json("error", 0))

\* ConditionalResponse::new
ConditionalResponseNew(handler) == [handler |-> handler, call_count |-> 0]

\* generate_response handing the handler the counter as it was before the
\* increment.
GenerateResponse_PostIncrement(cond) ==
    [cond |-> [cond EXCEPT !.call_count = cond.call_count + 1],
     response |-> Handler(cond.handler, cond.call_count)]

\* ConditionalResponse::generate_response: the object after the call and the
\* response the handler returned.
GenerateResponse(cond) ==
    LET count == cond.call_count + 1
    IN [cond |-> [cond EXCEPT !.call_count = count],
        response |-> Handler(cond.handler, count)]

(***************************************************************************)
(* models/expectation.rs                                                   *)
(***************************************************************************)
\* MockExpectation::compile_regex_if_needed
CompileRegexIfNeeded(exp) ==
    IF Contains(exp.path, "*")
    THEN LET re == RegexNew(ReplaceStar(exp.path))
         IN IF IsSome(re) THEN [exp EXCEPT !.path_regex = re] ELSE exp
    ELSE exp

\* MockExpectation::new
MockExpectationNew(id, method, path) ==
    CompileRegexIfNeeded(
        [id |-> id, method |-> ToUppercase(method), path |-> path, path_regex |-> None,
         query_params |-> EmptyMap, headers |-> EmptyMap, body |-> None,
         response |-> MockResponseDefault])

\* impl From<CreateExpectationRequest> for MockExpectation
FromCreateExpectationRequest(id, req) ==
    CompileRegexIfNeeded(
        [id |-> id, method |-> req.method, path |-> req.path, path_regex |-> None,
         query_params |-> req.query_params, headers |-> req.headers, body |-> req.body,
         response |-> [MockResponseDefault EXCEPT
                          !.status_code = req.response.status_code,
                          !.headers = req.response.headers,
                          !.body = req.response.body,
                          !.body_file = req.response.body_file]])

(***************************************************************************)
(* server/expectation_builder.rs.  A builder chain is given by the         *)
(* arguments of its calls: path, method, query_param*, header*, body,      *)
(* respond, status, header*, json | json_file, conditional.                *)
(***************************************************************************)
\* ExpectationBuilder::header over every (key, value) of the chain
LowercaseKeys(headers) ==
    [k \in {ToLowercase(x) : x \in DOMAIN headers} |->
        headers[CHOOSE x \in DOMAIN headers : ToLowercase(x) = k]]

\* The expectation a chain has built when build() is called.  cond_id is the
\* conditional id conditional() drew, if the chain calls it.
BuiltExpectation(id, cond_id, b) ==
    LET e0 == MockExpectationNew(id, "GET", PathRoot)
        e1 == CompileRegexIfNeeded([e0 EXCEPT !.path = b.path])
        e2 == [e1 EXCEPT !.method = ToUppercase(b.method),
                         !.query_params = b.query_params,
                         !.headers = LowercaseKeys(b.headers),
                         !.body = b.body]
        r1 == [e2.response EXCEPT !.status_code = b.status,
                                  !.headers = b.response_headers]
        r2 == IF IsSome(b.json)
              THEN [r1 EXCEPT !.body = b.json, !.headers = EnsureContentType(r1.headers)]
              ELSE r1
        r3 == IF IsSome(b.json_file)
              THEN [r2 EXCEPT !.body_file = b.json_file,
                              !.headers = EnsureContentType(r2.headers)]
              ELSE r2
        r4 == IF IsSome(b.conditional) THEN [r3 EXCEPT !.conditional_id = Some(cond_id)]
              ELSE r3
    IN [e2 EXCEPT !.response = r4]

(***************************************************************************)
(* handlers/dynamic.rs: what the handler extracts from the request.  A     *)
(* request is [method, path, query, headers, body]: query is the list of   *)
(* the '&'-separated pairs of the query string, <<key, value>> or <<key>>  *)
(* for a pair without '='; headers maps the names as sent to their values; *)
(* body is the raw body.                                                   *)
(***************************************************************************)
RawEmpty == [kind |-> "empty"]
RawInvalidUtf8 == [kind |-> "invalid"]
RawText(s) == [kind |-> "utf8", text |-> s]

\* A header value that HeaderValue::to_str rejects (bytes outside visible ASCII).
OpaqueValue == "\\xff"
ToStr(value) == IF value = OpaqueValue THEN None ELSE Some(value)

\* extract_query_params
RECURSIVE ExtractQueryParams(_)
ExtractQueryParams(query) ==
    IF query = <<>> THEN EmptyMap
    ELSE LET rest == ExtractQueryParams(SubSeq(query, 1, Len(query) - 1))
             pair == query[Len(query)]
         IN IF Len(pair) = 2 THEN MapPut(rest, pair[1], pair[2]) ELSE rest

\* The HeaderMap axum hands to the handler: header names are lowercase.
HeaderMapOf(headers) == LowercaseKeys(headers)

\* HeaderMap::get with a string key: the key is lowercased for the lookup.
HeaderGet(header_map, key) ==
    IF ToLowercase(key) \in DOMAIN header_map THEN Some(header_map[ToLowercase(key)])
    ELSE None

\* extract_headers
ExtractHeaders(header_map) ==
    [k \in {x \in DOMAIN header_map : IsSome(ToStr(header_map[x]))} |-> header_map[k]]

\* extract_body handing on whatever text the bytes decode to, the empty
\* string for a body of zero bytes.
ExtractBody_KeepEmpty(raw) ==
    IF raw.kind = "invalid" THEN None
    ELSE IF raw.kind = "empty" THEN Some("")
    ELSE Some(raw.text)

\* extract_body: no bytes, or bytes that are not UTF-8, give None.
ExtractBody(raw) ==
    IF raw.kind = "utf8" /\ raw.text # "" THEN Some(raw.text) ELSE None

(***************************************************************************)
(* handlers/dynamic.rs: find_matching_expectation, one predicate at a time *)
(***************************************************************************)
\* PathMatches with the exact branch comparing a prefix only.
PathMatches_Prefix(exp, path) ==
    IF Contains(exp.path, "*")
    THEN LET re == RegexNew(ReplaceStar(exp.path))
         IN IsSome(re) /\ IsMatch(Unwrap(re), path)
    ELSE StartsWith(path, exp.path)

\* "Check path": exact comparison, or the wildcard regex compiled on the spot.
PathMatches(exp, path) ==
    IF Contains(exp.path, "*")
    THEN LET re == RegexNew(ReplaceStar(exp.path))
         IN IsSome(re) /\ IsMatch(Unwrap(re), path)
    ELSE exp.path = path

\* "Check query parameters" comparing the keys only.
QueryParamsMatch_KeysOnly(exp, query_params) ==
    \A key \in DOMAIN exp.query_params : key \in DOMAIN query_params

\* "Check query parameters"
QueryParamsMatch(exp, query_params) ==
    \A key \in DOMAIN exp.query_params :
        key \in DOMAIN query_params /\ query_params[key] = exp.query_params[key]

\* "Check headers" accepting a header that is absent from the request.
HeadersMatch_PresentOnly(exp, header_map) ==
    \A key \in DOMAIN exp.headers :
        LET header_value == HeaderGet(header_map, key)
        IN IsSome(header_value) =>
              /\ IsSome(ToStr(Unwrap(header_value)))
              /\ Unwrap(ToStr(Unwrap(header_value))) = exp.headers[key]

\* "Check headers" comparing the values without regard to letter case.
HeadersMatch_ValueAnyCase(exp, header_map) ==
    \A key \in DOMAIN exp.headers :
        LET header_value == HeaderGet(header_map, key)
        IN /\ IsSome(header_value)
           /\ IsSome(ToStr(Unwrap(header_value)))
           /\ ToLowercase(Unwrap(ToStr(Unwrap(header_value)))) = ToLowercase(exp.headers[key])

\* "Check headers"
HeadersMatch(exp, header_map) ==
    \A key \in DOMAIN exp.headers :
        LET header_value == HeaderGet(header_map, key)
        IN /\ IsSome(header_value)
           /\ IsSome(ToStr(Unwrap(header_value)))
           /\ Unwrap(ToStr(Unwrap(header_value))) = exp.headers[key]

\* "Check body" letting a request without a body through.
BodyMatches_AbsentPasses(exp, body) ==
    (IsSome(exp.body) /\ IsSome(body)) => Unwrap(exp.body) = Unwrap(body)

\* "Check body"
BodyMatches(exp, body) ==
    IsSome(exp.body) => (IsSome(body) /\ Unwrap(exp.body) = Unwrap(body))

\* One iteration of the loop without the method check.
Satisfies_AnyMethod(exp, method, path, query_params, header_map, body) ==
    /\ PathMatches(exp, path)
    /\ QueryParamsMatch(exp, query_params)
    /\ HeadersMatch(exp, header_map)
    /\ BodyMatches(exp, body)

\* One iteration of the loop: does exp survive every `continue`?
Satisfies(exp, method, path, query_params, header_map, body) ==
    /\ exp.method = method
    /\ PathMatches(exp, path)
    /\ QueryParamsMatch(exp, query_params)
    /\ HeadersMatch(exp, header_map)
    /\ BodyMatches(exp, body)

\* find_matching_expectation without the early return: the last satisfying
\* expectation wins.
RECURSIVE FindMatchingExpectation_Last(_, _, _, _, _, _)
FindMatchingExpectation_Last(exps, method, path, query_params, header_map, body) ==
    IF exps = <<>> THEN None
    ELSE IF Satisfies(exps[Len(exps)], method, path, query_params, header_map, body)
    THEN Some(exps[Len(exps)])
    ELSE FindMatchingExpectation_Last(SubSeq(exps, 1, Len(exps) - 1), method, path,
                                      query_params, header_map, body)

\* find_matching_expectation: Some(first satisfying expectation) or None.
RECURSIVE FindMatchingExpectation(_, _, _, _, _, _)
FindMatchingExpectation(exps, method, path, query_params, header_map, body) ==
    IF exps = <<>> THEN None
    ELSE IF Satisfies(Head(exps), method, path, query_params, header_map, body)
    THEN Some(Head(exps))
    ELSE FindMatchingExpectation(Tail(exps), method, path, query_params, header_map, body)

(***************************************************************************)
(* handlers/dynamic.rs: create_response.  A response is [status, headers,  *)
(* body, source]: headers is a bag of <<name, value>> (the builder appends *)
(* headers, it never replaces one), source tells which branch built it.    *)
(***************************************************************************)
\* The status code taken as it is, whatever its value.
StatusFromU16_Unchecked(status_code) == status_code

\* StatusCode::from_u16(..).unwrap_or(StatusCode::OK)
StatusFromU16(status_code) ==
    IF status_code >= 100 /\ status_code < 1000 THEN status_code ELSE 200

HeaderBag(headers) == [h \in {<<k, headers[k]>> : k \in DOMAIN headers} |-> 1]
BagAppend(bag, h) ==
    [x \in DOMAIN bag \cup {h} |-> IF x = h THEN (IF h \in DOMAIN bag THEN bag[h] + 1 ELSE 1)
                                    ELSE bag[x]]

\* create_response answering an unreadable file with an empty body.
CreateResponse_IgnoreReadError(expectation) ==
    LET status == StatusFromU16(expectation.response.status_code)
        headers == HeaderBag(expectation.response.headers)
        content == IF IsSome(expectation.response.body_file)
                   THEN ReadToString(Unwrap(expectation.response.body_file))
                   ELSE None
    IN IF IsSome(content) /\ IsSome(Unwrap(content).json)
       THEN [status |-> status,
             headers |-> BagAppend(headers, <<"Content-Type", "application/json">>),
             body |-> Unwrap(content).json, source |-> "file_json"]
       ELSE IF IsSome(content)
       THEN [status |-> status, headers |-> headers,
             body |-> Some(Text(Unwrap(content).text)), source |-> "file_text"]
       ELSE IF IsSome(expectation.response.body_file)
       THEN [status |-> status, headers |-> headers, body |-> None, source |-> "empty"]
       ELSE IF IsSome(expectation.response.body)
       THEN [status |-> status, headers |-> headers,
             body |-> expectation.response.body, source |-> "inline"]
       ELSE [status |-> status, headers |-> headers, body |-> None, source |-> "empty"]

\* create_response
CreateResponse(expectation) ==
    LET status == StatusFromU16(expectation.response.status_code)
        headers == HeaderBag(expectation.response.headers)
    IN IF IsSome(expectation.response.body_file)
       THEN LET content == ReadToString(Unwrap(expectation.response.body_file))
            IN IF IsSome(content)
               THEN IF IsSome(Unwrap(content).json)
                    THEN [status |-> status,
                          headers |-> BagAppend(headers, <<"Content-Type", "application/json">>),
                          body |-> Unwrap(content).json, source |-> "file_json"]
                    ELSE [status |-> status, headers |-> headers,
                          body |-> Some(Text(Unwrap(content).text)), source |-> "file_text"]
               ELSE [status |-> 500, headers |-> HeaderBag(EmptyMap),
                     body |-> Some(Text("Error reading file")), source |-> "read_error"]
       ELSE IF IsSome(expectation.response.body)
       THEN [status |-> status, headers |-> headers,
             body |-> expectation.response.body, source |-> "inline"]
       ELSE [status |-> status, headers |-> headers, body |-> None, source |-> "empty"]

\* The 404 of handle_dynamic_request.
NotFoundResponse ==
    [status |-> 404, headers |-> HeaderBag(EmptyMap),
     body |-> Some(Text("No matching expectation found")), source |-> "not_found"]

(***************************************************************************)
(* server/mod.rs and models: the pure parts of the MockServer methods.     *)
(***************************************************************************)
\* RequestRecord::new losing the body.
RequestRecordNew_NoBody(method, path, query_params, headers, body, timestamp) ==
    [method |-> method, path |-> path, query_params |-> query_params,
     headers |-> headers, body |-> None, timestamp |-> timestamp]

\* RequestRecord::new
RequestRecordNew(method, path, query_params, headers, body, timestamp) ==
    [method |-> method, path |-> path, query_params |-> query_params,
     headers |-> headers, body |-> body, timestamp |-> timestamp]

\* record_request trimming from the back: the newest records are dropped.
RecordRequest_KeepOldest(log, record, max_size) ==
    LET pushed == Append(log, record)
    IN IF Len(pushed) > max_size THEN SubSeq(pushed, 1, max_size) ELSE pushed

\* record_request, the trim alone: drain(0..to_remove) when the log is over
\* its capacity.
DrainOldest(log, max_size) ==
    IF Len(log) > max_size
    THEN SubSeq(log, Len(log) - max_size + 1, Len(log))
    ELSE log

\* record_request, inside the write lock: push, then trim from the front.
RecordRequest(log, record, max_size) ==
    LET pushed == Append(log, record)
    IN IF Len(pushed) > max_size
       THEN SubSeq(pushed, Len(pushed) - max_size + 1, Len(pushed))
       ELSE pushed

\* add_expectation replacing the bucket instead of pushing onto it.
AddExpectation_Replace(exps, expectation) ==
    LET e == CompileRegexIfNeeded(expectation)
    IN [m \in DOMAIN exps \cup {e.method} |-> IF m = e.method THEN <<e>> ELSE exps[m]]

\* add_expectation inserting at the front of the bucket.
AddExpectation_Front(exps, expectation) ==
    LET e == CompileRegexIfNeeded(expectation)
        bucket == IF e.method \in DOMAIN exps THEN exps[e.method] ELSE <<>>
    IN [m \in DOMAIN exps \cup {e.method} |->
            IF m = e.method THEN <<e>> \o bucket ELSE exps[m]]

\* add_expectation, inside the write lock: entry(method).or_insert_with(Vec::new).push
AddExpectation(exps, expectation) ==
    LET e == CompileRegexIfNeeded(expectation)
        bucket == IF e.method \in DOMAIN exps THEN exps[e.method] ELSE <<>>
    IN [m \in DOMAIN exps \cup {e.method} |->
            IF m = e.method THEN Append(bucket, e) ELSE exps[m]]

\* get_expectations: the buckets flattened in the order HashMap::values yields
\* them.  bucket_order is one enumeration of the keys.
RECURSIVE GetExpectations(_, _)
GetExpectations(exps, bucket_order) ==
    IF bucket_order = <<>> THEN <<>>
    ELSE exps[Head(bucket_order)] \o GetExpectations(exps, Tail(bucket_order))

\* Every order in which HashMap::values may yield the buckets.
BucketOrders(exps) ==
    {o \in [1..Cardinality(DOMAIN exps) -> DOMAIN exps] :
        \A i, j \in DOMAIN o : i # j => o[i] # o[j]}

\* get_expectations_by_method returning the newest expectation of the bucket
\* only.
GetExpectationsByMethod_Newest(exps, method) ==
    IF method \in DOMAIN exps THEN <<exps[method][Len(exps[method])]>> ELSE <<>>

\* get_expectations_by_method
GetExpectationsByMethod(exps, method) ==
    IF method \in DOMAIN exps THEN exps[method] ELSE <<>>

\* count_calls filtering on the path alone.
RECURSIVE CountCalls_PathOnly(_, _, _)
CountCalls_PathOnly(log, method, path) ==
    IF log = <<>> THEN 0
    ELSE (IF Head(log).path = path THEN 1 ELSE 0)
         + CountCalls_PathOnly(Tail(log), method, path)

\* count_calls: iter().filter(..).count()
RECURSIVE CountCalls(_, _, _)
CountCalls(log, method, path) ==
    IF log = <<>> THEN 0
    ELSE (IF Head(log).method = method /\ Head(log).path = path THEN 1 ELSE 0)
         + CountCalls(Tail(log), method, path)

\* VerifyResponse::new accepting "at least" the expected number of calls.
VerifyResponseNew_AtLeast(method, path, expected, actual) ==
    [method |-> method, path |-> path, expected |-> expected, actual |-> actual,
     success |-> (actual >= expected)]

\* VerifyResponse::new
VerifyResponseNew(method, path, expected, actual) ==
    [method |-> method, path |-> path, expected |-> expected, actual |-> actual,
     success |-> (expected = actual)]

(***************************************************************************)
(* The state after MockServer::new(..).with_max_log_size(size).            *)
(***************************************************************************)
EmptyRegistry == [m \in {} |-> <<>>]
EmptyTable == [id \in {} |-> 0]
Idle == [op |-> "none"]

InitWith(sizes) ==
    /\ expectations = EmptyRegistry
    /\ request_log = <<>>
    /\ max_request_log_size \in sizes
    /\ conditional_responses = EmptyTable
    /\ spawned = {}
    /\ uuid = 0
    /\ clock = 0
    /\ pc = [t \in Tasks |-> "idle"]
    /\ local = [t \in Tasks |-> Idle]
    /\ last = Idle
    /\ appended = <<>>
    /\ matched = EmptyTable

\* History: the dispatch answered by expectation id returned response.
NoteMatched(m, id, response) ==
    [x \in DOMAIN m \cup {id} |->
        IF x = id THEN (IF id \in DOMAIN m THEN Append(m[id], response) ELSE <<response>>)
        ELSE m[x]]

(***************************************************************************)
(* Calls made one at a time, each running to completion: the embedding     *)
(* test awaits every call before the next.                                 *)
(***************************************************************************)
\* server.expect()...respond()...build().await.  conditional() has handed the
\* generator's registration to tokio::spawn before build() runs.
Build(b) ==
    LET draws == IF IsSome(b.conditional) THEN 2 ELSE 1
        exp == BuiltExpectation(uuid + 1, uuid + 2, b)
    IN /\ expectations' = AddExpectation(expectations, exp)
       /\ spawned' = IF IsSome(b.conditional)
                     THEN spawned \cup {[id |-> uuid + 2,
                                         cond |-> ConditionalResponseNew(Unwrap(b.conditional))]}
                     ELSE spawned
       /\ uuid' = uuid + draws
       /\ last' = [op |-> "build", id |-> exp.id, explicit |-> b.response_headers]
       /\ UNCHANGED <<request_log, max_request_log_size, conditional_responses, clock,
                      pc, local, appended, matched>>

\* The task conditional() spawned: server.add_conditional_response(cond_id, conditional).
SpawnedAddConditionalResponse ==
    \E task \in spawned :
        /\ spawned' = spawned \ {task}
        /\ conditional_responses' =
               [id \in DOMAIN conditional_responses \cup {task.id} |->
                    IF id = task.id THEN task.cond ELSE conditional_responses[id]]
        /\ UNCHANGED <<expectations, request_log, max_request_log_size, uuid, clock,
                       pc, local, last, appended, matched>>

\* handle_setup
HandleSetup(req) ==
    LET exp == FromCreateExpectationRequest(uuid + 1, req)
    IN /\ expectations' = AddExpectation(expectations, exp)
       /\ uuid' = uuid + 1
       /\ last' = [op |-> "setup", id |-> exp.id, status |-> 201,
                   explicit |-> req.response.headers]
       /\ UNCHANGED <<request_log, max_request_log_size, conditional_responses, spawned,
                      clock, pc, local, appended, matched>>

\* handle_dynamic_request using up the expectation it answers from: the
\* matched expectation is taken out of its bucket.
HandleDynamicRequest_Consume(req) ==
    \E bucket_order \in BucketOrders(expectations) :
        LET query_params == ExtractQueryParams(req.query)
            header_map == HeaderMapOf(req.headers)
            body == ExtractBody(req.body)
            record == RequestRecordNew(req.method, req.path, query_params,
                                       ExtractHeaders(header_map), body, clock + 1)
            snapshot == GetExpectations(expectations, bucket_order)
            found == FindMatchingExpectation(snapshot, req.method, req.path,
                                             query_params, header_map, body)
            response == IF IsSome(found) THEN CreateResponse(Unwrap(found))
                        ELSE NotFoundResponse
            Other(e) == e.id # Unwrap(found).id
        IN /\ clock' = clock + 1
           /\ request_log' = RecordRequest(request_log, record, max_request_log_size)
           /\ appended' = Append(appended, record)
           /\ matched' = IF IsSome(found)
                         THEN NoteMatched(matched, Unwrap(found).id, response)
                         ELSE matched
           /\ last' = [op |-> "dispatch", request |-> req, record |-> record,
                       found |-> found, response |-> response]
           /\ expectations' = IF IsSome(found)
                              THEN [m \in DOMAIN expectations |->
                                       SelectSeq(expectations[m], Other)]
                              ELSE expectations
           /\ UNCHANGED <<max_request_log_size, conditional_responses,
                          spawned, uuid, pc, local>>

\* handle_dynamic_request
HandleDynamicRequest(req) ==
    \E bucket_order \in BucketOrders(expectations) :
        LET query_params == ExtractQueryParams(req.query)
            header_map == HeaderMapOf(req.headers)
            body == ExtractBody(req.body)
            record == RequestRecordNew(req.method, req.path, query_params,
                                       ExtractHeaders(header_map), body, clock + 1)
            snapshot == GetExpectations(expectations, bucket_order)
            found == FindMatchingExpectation(snapshot, req.method, req.path,
                                             query_params, header_map, body)
            response == IF IsSome(found) THEN CreateResponse(Unwrap(found))
                        ELSE NotFoundResponse
        IN /\ clock' = clock + 1
           /\ request_log' = RecordRequest(request_log, record, max_request_log_size)
           /\ appended' = Append(appended, record)
           /\ matched' = IF IsSome(found)
                         THEN NoteMatched(matched, Unwrap(found).id, response)
                         ELSE matched
           /\ last' = [op |-> "dispatch", request |-> req, record |-> record,
                       found |-> found, response |-> response]
           /\ UNCHANGED <<expectations, max_request_log_size, conditional_responses,
                          spawned, uuid, pc, local>>

\* preload_file_content, the body of its inner loop: does it call
\* fs::read_to_string for this template, and the template it leaves.
PreloadReads(resp) == IsSome(resp.body_file) /\ resp.cached_file_content = None

PreloadResponse(resp) ==
    IF PreloadReads(resp)
    THEN LET content == ReadToString(Unwrap(resp.body_file))
         IN IF IsSome(content) THEN CacheFileContent(resp, Unwrap(content)) ELSE resp
    ELSE resp

\* preload_file_content().await (also the first step of start).  read holds
\* the expectations whose file it handed to fs::read_to_string.
PreloadFileContent ==
    /\ expectations' =
           [m \in DOMAIN expectations |->
               [i \in 1..Len(expectations[m]) |->
                   [expectations[m][i] EXCEPT !.response = PreloadResponse(@)]]]
    /\ last' = [op |-> "preload",
                read |-> UNION {{expectations[m][i].id : i \in
                                    {j \in 1..Len(expectations[m]) :
                                        PreloadReads(expectations[m][j].response)}} :
                                m \in DOMAIN expectations}]
    /\ UNCHANGED <<request_log, max_request_log_size, conditional_responses, spawned,
                   uuid, clock, pc, local, appended, matched>>

\* clear_request_log clearing the registry as well, as reset does.
ClearRequestLog_Reset ==
    /\ request_log' = <<>>
    /\ expectations' = EmptyRegistry
    /\ appended' = <<>>
    /\ last' = [op |-> "clear_request_log"]
    /\ UNCHANGED <<max_request_log_size, conditional_responses, spawned,
                   uuid, clock, pc, local, matched>>

\* clear_request_log
ClearRequestLog ==
    /\ request_log' = <<>>
    /\ appended' = <<>>
    /\ last' = [op |-> "clear_request_log"]
    /\ UNCHANGED <<expectations, max_request_log_size, conditional_responses, spawned,
                   uuid, clock, pc, local, matched>>

\* reset forgetting the log.
ResetRequestLog_Keep(log) == log

\* reset forgetting the registry.
ResetExpectations_Keep(exps) == exps

\* reset, in its two lock scopes: expectations.clear(), then request_log.clear().
ResetExpectations(exps) == EmptyRegistry
ResetRequestLog(log) == <<>>

\* reset().await (also handle_reset, which adds the 200 status)
Reset ==
    /\ expectations' = ResetExpectations(expectations)
    /\ request_log' = ResetRequestLog(request_log)
    /\ appended' = IF request_log' = <<>> THEN <<>> ELSE appended
    /\ matched' = EmptyTable
    /\ last' = [op |-> "reset", status |-> 200,
                had_expectations |-> (expectations # EmptyRegistry),
                had_records |-> (request_log # <<>>)]
    /\ UNCHANGED <<max_request_log_size, conditional_responses, spawned, uuid, clock,
                   pc, local>>

\* count_calls(method, path).await
CallCountCalls(method, path) ==
    /\ last' = [op |-> "count_calls", method |-> method, path |-> path,
                actual |-> CountCalls(request_log, method, path)]
    /\ UNCHANGED <<expectations, request_log, max_request_log_size,
                   conditional_responses, spawned, uuid, clock, pc, local, appended,
                   matched>>

\* handle_verify reached through the fallback route as well: the call is
\* recorded as a request to POST /_verify before it is answered.
HandleVerify_Recorded(req) ==
    LET actual == CountCalls(request_log, req.method, req.path)
        response == VerifyResponseNew(req.method, req.path, req.times, actual)
        record == RequestRecordNew("POST", <<"/", "_", "v">>, EmptyMap, EmptyMap,
                                   None, clock)
    IN /\ last' = [op |-> "verify", response |-> response,
                   status |-> IF response.success THEN 200 ELSE 400]
       /\ request_log' = RecordRequest(request_log, record, max_request_log_size)
       /\ UNCHANGED <<expectations, max_request_log_size,
                      conditional_responses, spawned, uuid, clock, pc, local, appended,
                      matched>>

\* handle_verify
HandleVerify(req) ==
    LET actual == CountCalls(request_log, req.method, req.path)
        response == VerifyResponseNew(req.method, req.path, req.times, actual)
    IN /\ last' = [op |-> "verify", response |-> response,
                   status |-> IF response.success THEN 200 ELSE 400]
       /\ UNCHANGED <<expectations, request_log, max_request_log_size,
                      conditional_responses, spawned, uuid, clock, pc, local, appended,
                      matched>>

(***************************************************************************)
(* Inputs: builder chains, setup requests and HTTP requests.               *)
(***************************************************************************)
Chain(method, path, query_params, headers, body, status) ==
    [method |-> method, path |-> path, query_params |-> query_params,
     headers |-> headers, body |-> body, status |-> status,
     response_headers |-> EmptyMap, json |-> Some(Json("ok", status)),
     json_file |-> None, conditional |-> None]

ConditionalChain(method, path, handler) ==
    [method |-> method, path |-> path, query_params |-> EmptyMap,
     headers |-> EmptyMap, body |-> None, status |-> 200,
     response_headers |-> EmptyMap, json |-> None,
     json_file |-> None, conditional |-> Some(handler)]

SetupRequest(method, path, status) ==
    [method |-> method, path |-> path, query_params |-> EmptyMap, headers |-> EmptyMap,
     body |-> None,
     response |-> [status_code |-> status, headers |-> EmptyMap,
                   body |-> Some(Json("ok", status)), body_file |-> None]]

Request(method, path, query, headers, body) ==
    [method |-> method, path |-> path, query |-> query, headers |-> headers,
     body |-> body]

\* Chains for the match engine: one unconstrained rule per method, a catch-all
\* wildcard, and one rule per kind of constraint.
MatchChains ==
    { Chain("GET", PathA, EmptyMap, EmptyMap, None, 200),
      Chain("get", PathAStar, EmptyMap, EmptyMap, None, 201),
      Chain("GET", PathA, MapOf("q", "t"), EmptyMap, None, 202),
      Chain("GET", PathA, EmptyMap, MapOf("X-API-Key", "k"), None, 203),
      Chain("GET", PathAB, EmptyMap, EmptyMap, None, 204),
      Chain("post", PathA, EmptyMap, EmptyMap, Some("b1"), 205),
      Chain("POST", PathAStar, EmptyMap, EmptyMap, None, 206) }

MatchSetups ==
    { SetupRequest("get", PathA, 210), SetupRequest("POST", PathA, 211) }

MatchRequests ==
    { Request("GET", PathA, <<>>, EmptyMap, RawEmpty),
      Request("GET", PathA, <<<<"q", "t">>, <<"x", "1">>>>, MapOf("X-Api-Key", "k"), RawEmpty),
      Request("GET", PathA, <<<<"q", "u">>>>, MapOf("X-Api-Key", "j"), RawEmpty),
      Request("GET", PathAB, <<>>, EmptyMap, RawEmpty),
      Request("GET", PathB, <<>>, EmptyMap, RawEmpty),
      Request("GET", PathBA, <<>>, EmptyMap, RawEmpty),
      Request("GET", PathRoot, <<>>, EmptyMap, RawEmpty),
      Request("POST", PathA, <<>>, EmptyMap, RawText("b1")),
      Request("POST", PathA, <<>>, EmptyMap, RawText("b2")),
      Request("POST", PathAB, <<>>, EmptyMap, RawEmpty) }

(***************************************************************************)
(* SpecMatch: registrations and dispatches against a server with a log of  *)
(* one record.                                                             *)
(***************************************************************************)
InitMatch == InitWith({1})

NextMatch ==
    \/ \E b \in MatchChains : uuid < MaxUuid /\ Build(b)
    \/ \E req \in MatchSetups : uuid < MaxUuid /\ HandleSetup(req)
    \/ \E req \in MatchRequests : clock < MatchDispatches /\ HandleDynamicRequest(req)

SpecMatch == InitMatch /\ [][NextMatch]_vars

(***************************************************************************)
(* What the claims below read off a completed dispatch.                    *)
(***************************************************************************)
Dispatched == last.op = "dispatch"

\* The expectations of the registry filed under a method, in registration order.
Bucket(method) == IF method \in DOMAIN expectations THEN expectations[method] ELSE <<>>

\* Every expectation of the registry.
Registered == UNION {{expectations[m][i] : i \in 1..Len(expectations[m])} : m \in DOMAIN expectations}

\* The path, query, header and body predicates on the last dispatched request.
PassesPredicates(exp) ==
    /\ PathMatches(exp, last.request.path)
    /\ QueryParamsMatch(exp, last.record.query_params)
    /\ HeadersMatch(exp, HeaderMapOf(last.request.headers))
    /\ BodyMatches(exp, last.record.body)

Min(S) == CHOOSE x \in S : \A y \in S : x <= y

(***************************************************************************)
(* C1: when several registered expectations of the request's method pass   *)
(* the path, query, header and body predicates, the dispatch answers with  *)
(* the one registered earliest; with none, it answers NotFound; an         *)
(* expectation of another method is never returned.                        *)
(***************************************************************************)
C1_FirstMatch ==
    Dispatched =>
        LET bucket == Bucket(last.request.method)
            hits == {i \in 1..Len(bucket) : PassesPredicates(bucket[i])}
        IN IF hits = {}
           THEN last.found = None /\ last.response = NotFoundResponse
           ELSE /\ last.found = Some(bucket[Min(hits)])
                /\ Unwrap(last.found).method = last.request.method
                /\ \A i \in hits : Unwrap(last.found).id <= bucket[i].id
                /\ last.response = CreateResponse(bucket[Min(hits)])

\* Three expectations of the request's method pass, and one of another method,
\* registered before all of them, passes the four predicates too.
C1_Witness ==
    /\ Dispatched
    /\ LET bucket == Bucket(last.request.method)
           hits == {i \in 1..Len(bucket) : PassesPredicates(bucket[i])}
       IN /\ Cardinality(hits) >= 2
          /\ \E e \in Registered :
                /\ e.method # last.request.method
                /\ PassesPredicates(e)
                /\ e.id < bucket[Min(hits)].id

HasWildcard(exp) == Contains(exp.path, "*")

PassesOtherPredicates(exp) ==
    /\ exp.method = last.request.method
    /\ QueryParamsMatch(exp, last.record.query_params)
    /\ HeadersMatch(exp, HeaderMapOf(last.request.headers))
    /\ BodyMatches(exp, last.record.body)

(***************************************************************************)
(* C10: an expectation whose path spec has no '*' passes the path          *)
(* predicate exactly for the request path equal to the spec: the dispatch  *)
(* never answers from such an expectation with another path, it does       *)
(* answer when one with the request's path passes the other predicates,    *)
(* and a request whose path no registered spec matches gets 404.           *)
(***************************************************************************)
C10_ExactPath ==
    Dispatched =>
        /\ \A e \in Registered :
              (~HasWildcard(e) /\ PassesOtherPredicates(e)) =>
                  /\ (e.path = last.request.path) => IsSome(last.found)
                  /\ (last.found = Some(e)) => e.path = last.request.path
        /\ (\A e \in Registered : ~HasWildcard(e) /\ e.path # last.request.path) =>
              last.response.status = 404
        /\ (IsSome(last.found) /\ ~HasWildcard(Unwrap(last.found))) =>
              Unwrap(last.found).path = last.request.path

\* A request for /ab went past a registered /a (a prefix of it) that passes the
\* other predicates, and was answered 404.
C10_Witness ==
    /\ Dispatched
    /\ last.request.path = PathAB
    /\ \E e \in Registered :
          ~HasWildcard(e) /\ e.path = PathA /\ PassesOtherPredicates(e)
    /\ last.response.status = 404

(***************************************************************************)
(* SpecLedger: the request log under every capacity 0..MaxCapacity, with   *)
(* calls made one at a time: registrations, dispatches, verification,      *)
(* clear_request_log and reset.                                            *)
(***************************************************************************)
FileChain(method, path, file_name) ==
    [method |-> method, path |-> path, query_params |-> EmptyMap,
     headers |-> EmptyMap, body |-> None, status |-> 200,
     response_headers |-> EmptyMap, json |-> None,
     json_file |-> Some(file_name), conditional |-> None]

LedgerChains ==
    { Chain("GET", PathA, MapOf("q", "t"), EmptyMap, None, 200),
      FileChain("GET", PathA, "missing.json") }

LedgerRequests ==
    { Request("GET", PathA, <<>>, EmptyMap, RawEmpty),
      Request("GET", PathA, <<<<"q", "t">>>>, EmptyMap, RawEmpty),
      Request("POST", PathA, <<>>, MapOf("X-Api-Key", "k"), RawText("b1")) }

LedgerEndpoints == { <<"GET", PathA>>, <<"GET", PathB>> }

VerifyRequests ==
    { [method |-> ep[1], path |-> ep[2], times |-> t] : ep \in LedgerEndpoints, t \in 1..2 }

InitLedger == InitWith(0..MaxCapacity)

NextLedger ==
    \/ \E b \in LedgerChains : uuid < MaxUuid - 1 /\ Build(b)
    \/ \E req \in LedgerRequests : clock < MaxDispatches /\ HandleDynamicRequest(req)
    \/ \E ep \in LedgerEndpoints : CallCountCalls(ep[1], ep[2])
    \/ \E req \in VerifyRequests : HandleVerify(req)
    \/ ClearRequestLog
    \/ Reset

SpecLedger == InitLedger /\ [][NextLedger]_vars

\* The last n elements of a sequence (all of it when it is shorter).
LastN(seq, n) == IF Len(seq) <= n THEN seq ELSE SubSeq(seq, Len(seq) - n + 1, Len(seq))

(***************************************************************************)
(* C4: once capacity + K records (K >= 0) have been appended since the     *)
(* last clear, the log holds exactly capacity records: the most recently   *)
(* appended ones, in append order.  Capacity 0 leaves the log empty.       *)
(***************************************************************************)
C4_LedgerBound ==
    Len(appended) >= max_request_log_size =>
        /\ Len(request_log) = max_request_log_size
        /\ \A i \in 1..max_request_log_size :
              request_log[i] = appended[Len(appended) - max_request_log_size + i]

\* Capacity 2 after three appends: the oldest record was evicted.
C4_Witness ==
    /\ max_request_log_size = 2
    /\ Len(appended) = 3
    /\ appended[1].path # appended[3].path \/ appended[1].method # appended[3].method
    /\ request_log = <<appended[2], appended[3]>>

(***************************************************************************)
(* C5: when reset() has returned, the log is empty, the registry has no    *)
(* bucket left, count_calls is 0 for every method and path, and every      *)
(* request is answered NotFound.                                           *)
(***************************************************************************)
C5_ResetLeavesNothing ==
    last.op = "reset" =>
        /\ request_log = <<>>
        /\ DOMAIN expectations = {}
        /\ \A ep \in LedgerEndpoints : CountCalls(request_log, ep[1], ep[2]) = 0
        /\ \A req \in LedgerRequests : \A bucket_order \in BucketOrders(expectations) :
              FindMatchingExpectation(GetExpectations(expectations, bucket_order),
                  req.method, req.path, ExtractQueryParams(req.query),
                  HeaderMapOf(req.headers), ExtractBody(req.body)) = None

\* The reset found expectations and records to clear.
C5_Witness ==
    /\ last.op = "reset"
    /\ last.had_expectations
    /\ last.had_records

(***************************************************************************)
(* C7: every dispatch, whether it ends in a matched response, in NotFound  *)
(* or in a server fault, pushes exactly one record carrying the request's  *)
(* method, path, query map, header map and body; the log after it is the   *)
(* log before it plus that record, trimmed to the capacity.                *)
(***************************************************************************)
C7_EveryDispatchRecorded ==
    [][ clock' # clock =>
          LET req == last'.request
              rec == last'.record
          IN /\ last'.op = "dispatch"
             /\ rec.method = req.method
             /\ rec.path = req.path
             /\ \A i \in 1..Len(req.query) :
                   (Len(req.query[i]) = 2 /\ \A j \in (i+1)..Len(req.query) : req.query[j][1] # req.query[i][1])
                       => (req.query[i][1] \in DOMAIN rec.query_params
                           /\ rec.query_params[req.query[i][1]] = req.query[i][2])
             /\ \A k \in DOMAIN req.headers :
                   ToLowercase(k) \in DOMAIN rec.headers /\ rec.headers[ToLowercase(k)] = req.headers[k]
             /\ (req.body.kind = "utf8" => rec.body = Some(req.body.text))
             /\ (req.body.kind # "utf8" => rec.body = None)
             /\ request_log' = LastN(request_log \o <<rec>>, max_request_log_size)
             /\ last'.response.status \in {200, 404, 500}
      ]_vars

\* A dispatch that ended in a server fault, recorded as the newest record.
C7_Witness ==
    /\ Dispatched
    /\ last.response.status = 500
    /\ last.request.body.kind = "empty"
    /\ request_log # <<>>
    /\ request_log[Len(request_log)] = last.record

(***************************************************************************)
(* C8: count_calls(method, path) is the number of records of the log with  *)
(* that method and that path, whatever their query, headers and body; 0    *)
(* when there is none.                                                     *)
(***************************************************************************)
C8_CountCalls ==
    last.op = "count_calls" =>
        last.actual = Cardinality({i \in 1..Len(request_log) :
                                      /\ request_log[i].method = last.method
                                      /\ request_log[i].path = last.path})

\* Two records that differ in their query are counted together.
C8_Witness ==
    /\ last.op = "count_calls"
    /\ last.actual = 2
    /\ \E i, j \in 1..Len(request_log) :
          /\ request_log[i].method = last.method /\ request_log[i].path = last.path
          /\ request_log[j].method = last.method /\ request_log[j].path = last.path
          /\ request_log[i].query_params # request_log[j].query_params

(***************************************************************************)
(* C9: verification.  DispatchedTo counts the dispatches of an endpoint    *)
(* since the log was last cleared.                                         *)
(***************************************************************************)
DispatchedTo(method, path) ==
    Cardinality({i \in 1..Len(appended) :
                    appended[i].method = method /\ appended[i].path = path})

VerifyOutcome(n) ==
    /\ last.response.success = (last.response.expected = n)
    /\ last.status = (IF last.response.expected = n THEN 200 ELSE 400)
    /\ last.response.actual = CountCalls(request_log, last.response.method, last.response.path)

\* C9 as claimed: after n dispatches of (method, path), n not above the
\* capacity, verify with times = t succeeds (200) iff t = n, fails (400)
\* otherwise, and reports actual = count_calls(method, path).
C9_Original ==
    (last.op = "verify"
        /\ DispatchedTo(last.response.method, last.response.path) <= max_request_log_size) =>
        VerifyOutcome(DispatchedTo(last.response.method, last.response.path))

\* C9 as amended: the same, when all the dispatches since the log was last
\* cleared, of any method and path, are not more than the capacity.
C9_VerifyOutcome ==
    (last.op = "verify" /\ Len(appended) <= max_request_log_size) =>
        VerifyOutcome(DispatchedTo(last.response.method, last.response.path))

\* Two dispatches of the endpoint, none evicted, verified with times = 1: the
\* verification fails with actual = 2.
C9_Witness ==
    /\ last.op = "verify"
    /\ Len(appended) <= max_request_log_size
    /\ DispatchedTo(last.response.method, last.response.path) = 2
    /\ last.response.expected = 1
    /\ last.status = 400

(***************************************************************************)
(* SpecCond: conditional expectations, calls made one at a time.           *)
(***************************************************************************)
CondChains ==
    { ConditionalChain("GET", PathA, "rate_limited"),
      ConditionalChain("GET", PathB, "status_cycle") }

CondRequests ==
    { Request("GET", PathA, <<>>, EmptyMap, RawEmpty),
      Request("GET", PathB, <<>>, EmptyMap, RawEmpty) }

InitCond == InitWith({1})

NextCond ==
    \/ \E b \in CondChains : uuid < MaxUuid - 1 /\ Build(b)
    \/ SpawnedAddConditionalResponse
    \/ \E req \in CondRequests : clock < CondDispatches /\ HandleDynamicRequest(req)

SpecCond == InitCond /\ [][NextCond]_vars

\* The handler registered (or about to be registered by the spawned task)
\* under a conditional id.
HandlerOf(cond_id) ==
    IF cond_id \in DOMAIN conditional_responses
    THEN conditional_responses[cond_id].handler
    ELSE (CHOOSE task \in spawned : task.id = cond_id).cond.handler

\* The registered expectations that carry a conditional id and have answered.
AnsweringConditionals ==
    {e \in Registered : IsSome(e.response.conditional_id) /\ e.id \in DOMAIN matched}

(***************************************************************************)
(* C3: for an expectation registered with a conditional generator g, the   *)
(* k-th request that matches it is answered with the status and the body   *)
(* of g(k).                                                                *)
(***************************************************************************)
C3_ConditionalDispatch ==
    \A e \in AnsweringConditionals :
        \A k \in 1..Len(matched[e.id]) :
            LET g == Handler(HandlerOf(Unwrap(e.response.conditional_id)), k)
            IN /\ matched[e.id][k].status = g.status_code
               /\ matched[e.id][k].body = g.body

CallNumberOf(response) ==
    IF IsSome(response.body) /\ Unwrap(response.body)[2] = "calls"
    THEN Unwrap(response.body)[3]
    ELSE 0

(***************************************************************************)
(* C2: for one conditional expectation whose generator is registered, the  *)
(* N dispatches it has answered received the call numbers 1..N: the        *)
(* generator's counter is N and the responses carry 1..N.                  *)
(***************************************************************************)
C2_CallNumbers ==
    \A e \in AnsweringConditionals :
        LET cond_id == Unwrap(e.response.conditional_id)
            n == Len(matched[e.id])
        IN (cond_id \in DOMAIN conditional_responses
                /\ conditional_responses[cond_id].handler = "rate_limited"
                /\ n <= 3) =>
              /\ conditional_responses[cond_id].call_count = n
              /\ {CallNumberOf(matched[e.id][k]) : k \in 1..n} = 1..n

(***************************************************************************)
(* SpecConc: the server under concurrent callers.  Every lock scope of the *)
(* code is one step; a task holds no lock between two steps.               *)
(***************************************************************************)
\* handle_dynamic_request, first lock scope: record_request(record).await.
\* History: visible holds the expectations registered when the dispatch
\* starts, cleared tells whether a reset has cleared the registry between the
\* start and the snapshot.
TaskRecordRequest(t, req) ==
    LET query_params == ExtractQueryParams(req.query)
        header_map == HeaderMapOf(req.headers)
        body == ExtractBody(req.body)
        record == RequestRecordNew(req.method, req.path, query_params,
                                   ExtractHeaders(header_map), body, clock + 1)
    IN /\ pc[t] = "idle"
       /\ clock' = clock + 1
       /\ request_log' = RecordRequest(request_log, record, max_request_log_size)
       /\ appended' = Append(appended, record)
       /\ pc' = [pc EXCEPT ![t] = "get_expectations"]
       /\ local' = [local EXCEPT ![t] = [op |-> "dispatch", request |-> req,
                                         record |-> record, snapshot |-> <<>>,
                                         visible |-> Registered, cleared |-> FALSE]]
       /\ UNCHANGED <<expectations, max_request_log_size, conditional_responses,
                      spawned, uuid, last, matched>>

\* handle_dynamic_request, second lock scope: get_expectations().await
TaskGetExpectations(t) ==
    /\ pc[t] = "get_expectations"
    /\ \E bucket_order \in BucketOrders(expectations) :
          local' = [local EXCEPT ![t].snapshot = GetExpectations(expectations, bucket_order)]
    /\ pc' = [pc EXCEPT ![t] = "respond"]
    /\ UNCHANGED <<expectations, request_log, max_request_log_size,
                   conditional_responses, spawned, uuid, clock, last, appended, matched>>

\* handle_dynamic_request, after the locks: match over the snapshot and answer.
TaskRespond(t) ==
    LET req == local[t].request
        found == FindMatchingExpectation(local[t].snapshot, req.method, req.path,
                                         ExtractQueryParams(req.query),
                                         HeaderMapOf(req.headers), ExtractBody(req.body))
        response == IF IsSome(found) THEN CreateResponse(Unwrap(found))
                    ELSE NotFoundResponse
    IN /\ pc[t] = "respond"
       /\ matched' = IF IsSome(found)
                     THEN NoteMatched(matched, Unwrap(found).id, response)
                     ELSE matched
       /\ last' = [op |-> "dispatch", request |-> req, record |-> local[t].record,
                   found |-> found, response |-> response,
                   visible |-> local[t].visible, cleared |-> local[t].cleared]
       /\ pc' = [pc EXCEPT ![t] = "idle"]
       /\ local' = [local EXCEPT ![t] = Idle]
       /\ UNCHANGED <<expectations, request_log, max_request_log_size,
                      conditional_responses, spawned, uuid, clock, appended>>

\* reset, first lock scope: expectations.clear()
TaskResetExpectations(t) ==
    /\ pc[t] = "idle"
    /\ expectations' = ResetExpectations(expectations)
    /\ pc' = [pc EXCEPT ![t] = "reset_request_log"]
    /\ local' = [u \in Tasks |->
                    IF u = t
                    THEN [op |-> "reset", uuid_at_start |-> uuid,
                          clock_at_start |-> clock,
                          had_expectations |-> (expectations # EmptyRegistry),
                          had_records |-> (request_log # <<>>)]
                    ELSE IF pc[u] = "get_expectations"
                    THEN [local[u] EXCEPT !.cleared = TRUE]
                    ELSE local[u]]
    /\ UNCHANGED <<request_log, max_request_log_size, conditional_responses, spawned,
                   uuid, clock, last, appended, matched>>

\* reset, second lock scope: request_log.clear()
TaskResetRequestLog(t) ==
    /\ pc[t] = "reset_request_log"
    /\ request_log' = ResetRequestLog(request_log)
    /\ appended' = IF request_log' = <<>> THEN <<>> ELSE appended
    /\ pc' = [pc EXCEPT ![t] = "idle"]
    /\ UNCHANGED <<expectations, max_request_log_size, conditional_responses, spawned,
                   uuid, clock, local, last, matched>>

\* get_request_log().await by an observer; resets holds, for every reset that
\* is between its two lock scopes, the clock at which it began.
CallGetRequestLog ==
    /\ last' = [op |-> "get_request_log", log |-> request_log,
                resets |-> {local[t].clock_at_start :
                               t \in {u \in Tasks : pc[u] = "reset_request_log"}}]
    /\ UNCHANGED <<expectations, request_log, max_request_log_size,
                   conditional_responses, spawned, uuid, clock, pc, local, appended,
                   matched>>

ConcChains ==
    { ConditionalChain("GET", PathA, "rate_limited"),
      Chain("GET", PathB, EmptyMap, EmptyMap, None, 200) }

ConcRequests ==
    { Request("GET", PathA, <<>>, EmptyMap, RawEmpty),
      Request("GET", PathB, <<>>, EmptyMap, RawEmpty) }

ConcSetups == { SetupRequest("GET", PathB, 210) }

InitConc == InitWith({MaxCapacity})

NextConc ==
    \/ \E b \in ConcChains : uuid < MaxUuid - 1 /\ Build(b)
    \/ \E req \in ConcSetups : uuid < MaxUuid - 1 /\ HandleSetup(req)
    \/ SpawnedAddConditionalResponse
    \/ \E t \in Tasks, req \in ConcRequests :
          clock < ConcDispatches /\ TaskRecordRequest(t, req)
    \/ \E t \in Tasks : TaskGetExpectations(t)
    \/ \E t \in Tasks : TaskRespond(t)
    \/ \E t \in Tasks : TaskResetExpectations(t)
    \/ \E t \in Tasks : TaskResetRequestLog(t)
    \/ CallGetRequestLog

SpecConc == InitConc /\ [][NextConc]_vars

(***************************************************************************)
(* C6, as stated: no observer sees the registry already cleared by a reset *)
(* while the ledger still holds a record from before that reset.           *)
(***************************************************************************)
C6_Original ==
    last.op = "get_request_log" =>
        \A began \in last.resets :
            \A i \in 1..Len(last.log) : last.log[i].timestamp > began

(***************************************************************************)
(* C6, amended: a reset clears the registry first and the ledger second.   *)
(* From its first lock scope on the registry holds no expectation          *)
(* registered before the reset began, and once it has returned the ledger  *)
(* holds no record from before it began either: the ledger is never seen   *)
(* cleared by a reset whose registry clearing is still to come.            *)
(***************************************************************************)
C6_ResetOrder ==
    \A t \in Tasks :
        local[t].op = "reset" =>
            /\ \A e \in Registered : e.id > local[t].uuid_at_start
            /\ pc[t] = "idle" =>
                  \A i \in 1..Len(request_log) :
                      request_log[i].timestamp > local[t].clock_at_start

\* A reset that had expectations and records to clear has returned while
\* another task is in the middle of a dispatch.
C6_Witness ==
    \E t \in Tasks :
        /\ local[t].op = "reset"
        /\ pc[t] = "idle"
        /\ local[t].had_expectations
        /\ local[t].had_records
        /\ \E u \in Tasks \ {t} : pc[u] \in {"get_expectations", "respond"}

(***************************************************************************)
(* SpecWild: wildcard path specs against every request path of up to       *)
(* MaxPathLen characters over the alphabet '/', 'a', '.', '('.             *)
(***************************************************************************)
PathAlphabet == {"/", "a", ".", "("}

\* Every request path: '/' followed by up to MaxPathLen - 1 characters.
WildPaths ==
    UNION {{<<"/">> \o rest : rest \in [1..n -> PathAlphabet]} : n \in 0..(MaxPathLen - 1)}

\* "/*/a", "/a*", "/*/*", "/.*" and "/(*"
WildSpecs ==
    { <<"/", "*", "/", "a">>, PathAStar, <<"/", "*", "/", "*">>, <<"/", ".", "*">>,
      <<"/", "(", "*">> }

WildSetups == { SetupRequest("GET", <<"/", "(", "*">>, 210) }

WildChains == { Chain("GET", spec, EmptyMap, EmptyMap, None, 200) : spec \in WildSpecs }

WildRequests == { Request("GET", path, <<>>, EmptyMap, RawEmpty) : path \in WildPaths }

InitWild == InitWith({1})

NextWild ==
    \/ \E b \in WildChains : uuid < MaxUuid - 1 /\ Build(b)
    \/ \E req \in WildSetups : uuid < MaxUuid - 1 /\ HandleSetup(req)
    \/ \E req \in WildRequests : clock < WildDispatches /\ HandleDynamicRequest(req)

SpecWild == InitWild /\ [][NextWild]_vars

\* path is spec with every '*' replaced by some string, possibly empty,
\* possibly holding '/'.
RECURSIVE Instantiates(_, _)
Instantiates(spec, path) ==
    IF spec = <<>> THEN path = <<>>
    ELSE IF Head(spec) = "*"
    THEN \E k \in 0..Len(path) :
            Instantiates(Tail(spec), SubSeq(path, k + 1, Len(path)))
    ELSE path # <<>> /\ Head(path) = Head(spec) /\ Instantiates(Tail(spec), Tail(path))

(***************************************************************************)
(* C11: for a path spec with one or more '*', a request path passes the    *)
(* path predicate iff it is the spec with every '*' replaced by some       *)
(* string: the dispatch answers when a registered wildcard expectation is  *)
(* instantiated by the request path, and it never answers from a wildcard  *)
(* expectation that the request path does not instantiate.                 *)
(***************************************************************************)
C11_WildcardAnchored ==
    Dispatched =>
        \A e \in Registered :
            (HasWildcard(e) /\ PassesOtherPredicates(e)) =>
                /\ Instantiates(e.path, last.request.path) => IsSome(last.found)
                /\ (last.found = Some(e)) => Instantiates(e.path, last.request.path)

(***************************************************************************)
(* SpecDetails: expectations constrained on query, headers or body, on one *)
(* endpoint, against requests that vary the three.                         *)
(***************************************************************************)
QueryTL == [k \in {"q", "l"} |-> IF k = "q" THEN "t" ELSE "1"]
HeadersKA == [k \in {"X-API-Key", "Authorization"} |-> IF k = "X-API-Key" THEN "k" ELSE "j"]

DetailChains ==
    { Chain("GET", PathA, QueryTL, EmptyMap, None, 201),
      Chain("GET", PathA, MapOf("q", "t"), EmptyMap, None, 202),
      Chain("GET", PathA, EmptyMap, HeadersKA, None, 203),
      Chain("GET", PathA, EmptyMap, EmptyMap, Some("b1"), 204),
      Chain("GET", PathA, EmptyMap, EmptyMap, None, 205),
      Chain("GET", PathA, EmptyMap, EmptyMap, Some(""), 206) }

\* The setup API stores the header names as sent.
DetailSetups ==
    { [SetupRequest("GET", PathA, 210) EXCEPT !.headers = MapOf("X-API-Key", "k")],
      [SetupRequest("GET", PathA, 211) EXCEPT !.query_params = MapOf("l", "1"),
                                              !.body = Some("b2")] }

DetailQueries ==
    { <<>>, <<<<"q", "t">>>>, <<<<"q", "t">>, <<"l", "1">>>>, <<<<"q", "t">>, <<"l", "2">>>>,
      <<<<"l", "1">>, <<"x", "1">>, <<"q", "t">>>>, <<<<"q">>, <<"l", "1">>>> }

DetailHeaders ==
    { EmptyMap, MapOf("X-Api-Key", "k"), MapOf("x-api-key", "j"),
      [k \in {"x-api-key", "authorization", "accept"} |->
          IF k = "x-api-key" THEN "k" ELSE "j"],
      [k \in {"X-API-Key", "Authorization"} |->
          IF k = "X-API-Key" THEN "k" ELSE OpaqueValue],
      [k \in {"X-API-KEY", "AUTHORIZATION"} |->
          IF k = "X-API-KEY" THEN "k" ELSE "j"],
      [k \in {"X-API-KEY", "AUTHORIZATION"} |->
          IF k = "X-API-KEY" THEN "K" ELSE "j"] }

DetailBodies == { RawEmpty, RawText(""), RawText("b1"), RawText("b2"), RawInvalidUtf8 }

DetailRequests ==
    { Request("GET", PathA, q, h, b) : q \in DetailQueries, h \in DetailHeaders,
                                       b \in DetailBodies }

InitDetails == InitWith({1})

NextDetails ==
    \/ \E b \in DetailChains : uuid < MaxUuid - 1 /\ Build(b)
    \/ \E req \in DetailSetups : uuid < MaxUuid - 1 /\ HandleSetup(req)
    \/ \E req \in DetailRequests : clock < DetailDispatches /\ HandleDynamicRequest(req)

SpecDetails == InitDetails /\ [][NextDetails]_vars

\* Every required key is among the actual ones, with the same value.
RequiredPresent(required, actual) ==
    \A k \in DOMAIN required : k \in DOMAIN actual /\ actual[k] = required[k]

\* The query map of the last dispatched request, as recorded.
RequestQuery == last.record.query_params

\* The method, path, header and body checks on the last dispatched request.
PassesAllButQuery(exp) ==
    /\ exp.method = last.request.method
    /\ PathMatches(exp, last.request.path)
    /\ HeadersMatch(exp, HeaderMapOf(last.request.headers))
    /\ BodyMatches(exp, last.record.body)

(***************************************************************************)
(* C12: a request passes an expectation's query predicate iff every        *)
(* required key is in the request's query map with the same value.  Extra  *)
(* request keys do not matter; the dispatch never answers from an          *)
(* expectation with a missing or differing required key, and answers 404   *)
(* when every registered expectation has one.                              *)
(***************************************************************************)
C12_QuerySubset ==
    Dispatched =>
        /\ \A e \in Registered :
              /\ (PassesAllButQuery(e) /\ RequiredPresent(e.query_params, RequestQuery))
                    => IsSome(last.found)
              /\ (last.found = Some(e)) => RequiredPresent(e.query_params, RequestQuery)
        /\ (\A e \in Registered : ~RequiredPresent(e.query_params, RequestQuery))
              => last.response.status = 404

\* An expectation requiring q and l answered a request that also carries x,
\* after an earlier one was passed over.
C12_Witness ==
    /\ Dispatched
    /\ IsSome(last.found)
    /\ DOMAIN Unwrap(last.found).query_params = {"q", "l"}
    /\ "x" \in DOMAIN RequestQuery
    /\ \E e \in Registered : e.id < Unwrap(last.found).id

\* The required header is carried by the request as sent (header names are
\* case-insensitive in HTTP) with the same value.
RequiredHeadersPresent(exp) ==
    \A k \in DOMAIN exp.headers :
        \E h \in DOMAIN last.request.headers :
            /\ ToLowercase(h) = ToLowercase(k)
            /\ last.request.headers[h] = exp.headers[k]

\* The method, path, query and body checks on the last dispatched request.
PassesAllButHeaders(exp) ==
    /\ exp.method = last.request.method
    /\ PathMatches(exp, last.request.path)
    /\ QueryParamsMatch(exp, last.record.query_params)
    /\ BodyMatches(exp, last.record.body)

(***************************************************************************)
(* C13: a request passes an expectation's header predicate iff every       *)
(* required header is in the request with the same value.  Extra request   *)
(* headers do not matter; the dispatch never answers from an expectation   *)
(* of which the request misses a required header or carries another value  *)
(* for it.                                                                 *)
(***************************************************************************)
C13_HeaderSubset ==
    Dispatched =>
        \A e \in Registered :
            /\ (PassesAllButHeaders(e) /\ RequiredHeadersPresent(e)) => IsSome(last.found)
            /\ (last.found = Some(e)) => RequiredHeadersPresent(e)

\* An expectation requiring two headers answered a request that carries a
\* third one.
C13_Witness ==
    /\ Dispatched
    /\ IsSome(last.found)
    /\ Cardinality(DOMAIN Unwrap(last.found).headers) = 2
    /\ Cardinality(DOMAIN last.request.headers) = 3

\* The method, path, query and header checks on the last dispatched request.
PassesAllButBody(exp) ==
    /\ exp.method = last.request.method
    /\ PathMatches(exp, last.request.path)
    /\ QueryParamsMatch(exp, last.record.query_params)
    /\ HeadersMatch(exp, HeaderMapOf(last.request.headers))

\* The request carries a body that is string-equal to the required one, or
\* no body is required.
BodyAccepted(exp) ==
    exp.body = None \/ exp.body = last.record.body

(***************************************************************************)
(* C14: an expectation with a required body is matched only by a request   *)
(* that carries a body string-equal to it (an absent or different body     *)
(* does not match); an expectation without a required body is matched on   *)
(* this predicate whatever the request's body, none included.              *)
(***************************************************************************)
C14_BodyPredicate ==
    Dispatched =>
        \A e \in Registered :
            /\ (PassesAllButBody(e) /\ BodyAccepted(e)) => IsSome(last.found)
            /\ (last.found = Some(e)) => BodyAccepted(e)
            /\ (last.found = Some(e) /\ IsSome(e.body)) =>
                  (last.request.body.kind = "utf8" /\ last.request.body.text = Unwrap(e.body))

\* A request without a body went past an expectation that requires one and
\* was answered by a later expectation that requires none.
C14_Witness ==
    /\ Dispatched
    /\ last.record.body = None
    /\ IsSome(last.found)
    /\ Unwrap(last.found).body = None
    /\ \E e \in Registered :
          /\ IsSome(e.body)
          /\ PassesAllButBody(e)
          /\ e.id < Unwrap(last.found).id

\* The expectations of a snapshot.
InSnapshot(snapshot) == {snapshot[i] : i \in 1..Len(snapshot)}

C16_UppercaseMethods ==
    /\ \A m \in DOMAIN expectations :
          \A i \in 1..Len(expectations[m]) :
              /\ expectations[m][i].method = ToUppercase(expectations[m][i].method)
              /\ expectations[m][i].method = m
    /\ Dispatched =>
          \A e \in Registered :
              (ToUppercase(e.method) = last.request.method /\ PassesPredicates(e))
                  => IsSome(last.found)

(***************************************************************************)
(* SpecResponse: response templates with an inline body, a file reference, *)
(* both or none, with or without an explicit Content-Type, registered      *)
(* through the builder and through the setup API.                          *)
(***************************************************************************)
ExplicitContentType == MapOf("Content-Type", "text/plain")

ResponseFiles == {"user.json", "notes.txt", "missing.json"}

ResponseChains ==
    { [Chain("GET", PathA, EmptyMap, EmptyMap, None, 200) EXCEPT
          !.json = json, !.json_file = json_file, !.response_headers = headers] :
      json \in {None, Some(Json("ok", 1))},
      json_file \in {None} \cup {Some(f) : f \in ResponseFiles},
      headers \in {EmptyMap, ExplicitContentType} }

ResponseSetups ==
    { [SetupRequest("GET", PathA, 200) EXCEPT
          !.response.body = body, !.response.body_file = body_file,
          !.response.headers = headers] :
      body \in {None, Some(Json("ok", 2))},
      body_file \in {None, Some("user.json"), Some("missing.json")},
      headers \in {EmptyMap, ExplicitContentType} }

ResponseRequests == { Request("GET", PathA, <<>>, EmptyMap, RawEmpty) }

InitResponse == InitWith({1})

NextResponse ==
    \/ \E b \in ResponseChains : uuid < MaxUuid - 1 /\ Build(b)
    \/ \E req \in ResponseSetups : uuid < MaxUuid - 1 /\ HandleSetup(req)
    \/ \E req \in ResponseRequests :
          clock < ResponseDispatches /\ HandleDynamicRequest(req)

SpecResponse == InitResponse /\ [][NextResponse]_vars

\* The first expectation of the request's method that passes the four
\* predicates on the last dispatched request, if any.
FirstMatching ==
    LET bucket == Bucket(last.request.method)
        hits == {i \in 1..Len(bucket) : PassesPredicates(bucket[i])}
    IN IF hits = {} THEN None ELSE Some(bucket[Min(hits)])

\* The template refers to a file that cannot be read.
FileUnreadable(response) ==
    IsSome(response.body_file) /\ ReadToString(Unwrap(response.body_file)) = None

(***************************************************************************)
(* C17: when the first matching expectation refers to a file that cannot   *)
(* be read, the dispatch answers 500: it is not answered from the next     *)
(* matching expectation, not with 404 and not with an empty 200.           *)
(***************************************************************************)
C17_UnreadableFileFailsClosed ==
    (Dispatched /\ IsSome(FirstMatching)
        /\ FileUnreadable(Unwrap(FirstMatching).response)) =>
        /\ last.found = FirstMatching
        /\ last.response.status = 500
        /\ last.response.source = "read_error"

\* The first of two matching expectations refers to a missing file, the
\* second has a readable body: the answer is 500.
C17_Witness ==
    /\ Dispatched
    /\ IsSome(FirstMatching)
    /\ FileUnreadable(Unwrap(FirstMatching).response)
    /\ \E e \in Registered :
          /\ e.id > Unwrap(FirstMatching).id
          /\ e.method = last.request.method
          /\ PassesPredicates(e)
          /\ ~FileUnreadable(e.response)
    /\ last.response.status = 500

\* The body the claimed precedence gives a template: the inline value, else
\* the file content as JSON when it parses, else the file content as text,
\* else nothing.
BodyByPrecedence(response) ==
    IF IsSome(response.body) THEN response.body
    ELSE IF IsSome(response.body_file)
    THEN LET content == Unwrap(ReadToString(Unwrap(response.body_file)))
         IN IF IsSome(content.json) THEN content.json ELSE Some(Text(content.text))
    ELSE None

(***************************************************************************)
(* C18: the body of the response to a matched request is the template's    *)
(* inline value if it has one, even next to a file reference; otherwise    *)
(* the file content as JSON if it parses as JSON; otherwise the file       *)
(* content as text; otherwise empty.                                       *)
(***************************************************************************)
C18_BodyPrecedence ==
    (Dispatched /\ IsSome(last.found)
        /\ (IsSome(Unwrap(last.found).response.body)
               \/ ~FileUnreadable(Unwrap(last.found).response))) =>
        last.response.body = BodyByPrecedence(Unwrap(last.found).response)

\* The expectation registered by the last build() or setup call.
LastRegistered == CHOOSE e \in Registered : e.id = last.id

\* The template has an inline JSON body or a JSON file reference.
JsonBearing(response) == IsSome(response.body) \/ IsSome(response.body_file)

(***************************************************************************)
(* C19: a response template that enters the registry with a JSON-bearing   *)
(* body (inline JSON or a JSON file reference) and no explicitly set       *)
(* Content-Type carries Content-Type: application/json, whichever way it   *)
(* was registered; an explicitly set Content-Type is kept as set.          *)
(***************************************************************************)
C19_ContentTypeInjected ==
    (last.op \in {"build", "setup"} /\ JsonBearing(LastRegistered.response)) =>
        LET headers == LastRegistered.response.headers
        IN /\ "Content-Type" \in DOMAIN headers
           /\ headers["Content-Type"] =
                 (IF "Content-Type" \in DOMAIN last.explicit
                  THEN last.explicit["Content-Type"]
                  ELSE "application/json")

\* What a dispatch of req finds in the registry exps, the buckets taken in
\* bucket_order.
Finds(exps, bucket_order, req) ==
    FindMatchingExpectation(GetExpectations(exps, bucket_order), req.method, req.path,
                            ExtractQueryParams(req.query), HeaderMapOf(req.headers),
                            ExtractBody(req.body))

(***************************************************************************)
(* C20: clear_request_log empties the ledger and leaves the registry as it *)
(* was: the same expectations in the same order, matching the same         *)
(* requests afterwards.                                                    *)
(***************************************************************************)
C20_ClearLogFrame ==
    [][last'.op = "clear_request_log" =>
          /\ request_log' = <<>>
          /\ expectations' = expectations
          /\ \A bucket_order \in BucketOrders(expectations) :
                \A req \in LedgerRequests :
                    Finds(expectations', bucket_order, req)
                        = Finds(expectations, bucket_order, req)]_vars

\* A log with records was cleared under a registry of two expectations.
C20_Witness ==
    /\ last.op = "clear_request_log"
    /\ request_log = <<>>
    /\ max_request_log_size > 0
    /\ clock > 0
    /\ Cardinality(Registered) = 2

(***************************************************************************)
(* SpecGen: ConditionalResponse objects used directly.  The embedding      *)
(* program creates them with ConditionalResponse::new and calls            *)
(* generate_response on them; conditional_responses holds the objects,     *)
(* numbered in creation order, and matched the responses each returned.    *)
(***************************************************************************)
GenHandlers == {"rate_limited", "counter", "status_cycle"}

\* ConditionalResponse::new(handler)
CallConditionalResponseNew(handler) ==
    LET id == Cardinality(DOMAIN conditional_responses) + 1
    IN /\ conditional_responses' =
              [x \in DOMAIN conditional_responses \cup {id} |->
                  IF x = id THEN ConditionalResponseNew(handler)
                  ELSE conditional_responses[x]]
       /\ last' = [op |-> "new", id |-> id]
       /\ UNCHANGED <<expectations, request_log, max_request_log_size, spawned, uuid,
                      clock, pc, local, appended, matched>>

\* cond.generate_response() on the object numbered id
CallGenerateResponse(id) ==
    LET result == GenerateResponse(conditional_responses[id])
    IN /\ conditional_responses' = [conditional_responses EXCEPT ![id] = result.cond]
       /\ matched' = NoteMatched(matched, id, result.response)
       /\ last' = [op |-> "generate_response", id |-> id, response |-> result.response]
       /\ UNCHANGED <<expectations, request_log, max_request_log_size, spawned, uuid,
                      clock, pc, local, appended>>

InitGen == InitWith({1})

NextGen ==
    \/ \E handler \in GenHandlers :
          /\ Cardinality(DOMAIN conditional_responses) < MaxGenerators
          /\ CallConditionalResponseNew(handler)
    \/ \E id \in DOMAIN conditional_responses :
          /\ conditional_responses[id].call_count < MaxCalls
          /\ CallGenerateResponse(id)

SpecGen == InitGen /\ [][NextGen]_vars

\* The responses the object numbered id has returned so far.
Returned(id) == IF id \in DOMAIN matched THEN matched[id] ELSE <<>>

(***************************************************************************)
(* C21: a new ConditionalResponse has call_count = 0; every                *)
(* generate_response call increments call_count by exactly 1 and hands the *)
(* incremented value to the handler: after n calls call_count = n and the  *)
(* i-th call returned handler(i), the first one handler(1), never          *)
(* handler(0).                                                             *)
(***************************************************************************)
C21_CounterSteps ==
    \A id \in DOMAIN conditional_responses :
        LET cond == conditional_responses[id]
            n == Len(Returned(id))
        IN /\ cond.call_count = n
           /\ \A i \in 1..n :
                 /\ Returned(id)[i] = Handler(cond.handler, i)
                 /\ cond.handler = "counter" => Unwrap(Returned(id)[i].body) = Json("count", i)

\* One object has been called MaxCalls times and another, created after it,
\* twice: each carries its own count.
C21_Witness ==
    /\ last.op = "generate_response"
    /\ \E id, other \in DOMAIN conditional_responses :
          /\ conditional_responses[id].handler = "counter"
          /\ conditional_responses[id].call_count = MaxCalls
          /\ Returned(id)[MaxCalls].status_code = 429
          /\ conditional_responses[other].call_count = 2

(***************************************************************************)
(* C22: the literal characters of a wildcard spec are escaped.  In a path  *)
(* spec with '*', every other character matches only itself and regex      *)
(* metacharacters ('.', '(' ...) have no special meaning: a request path   *)
(* passes the path predicate of the spec exactly when it is the spec with  *)
(* its '*' replaced, each literal character standing for itself.           *)
(***************************************************************************)
C22_LiteralsEscaped ==
    Dispatched =>
        \A e \in Registered :
            HasWildcard(e) =>
                (PathMatches(e, last.request.path)
                    <=> Instantiates(e.path, last.request.path))

\* The path spec is a pattern the regex crate rejects.
BadPattern(exp) ==
    HasWildcard(exp) /\ ParenDepth(ReplaceStar(exp.path), 0) # 0

\* The expectations of a sequence whose pattern compiles, in the same order.
RECURSIVE WithoutBadPatterns(_)
WithoutBadPatterns(exps) ==
    IF exps = <<>> THEN <<>>
    ELSE IF BadPattern(Head(exps)) THEN WithoutBadPatterns(Tail(exps))
    ELSE <<Head(exps)>> \o WithoutBadPatterns(Tail(exps))

(***************************************************************************)
(* C23: a pattern that fails to compile disables only its own expectation. *)
(* Its registration succeeds and stores it; it answers no request; and     *)
(* every dispatch is answered as if it were absent: by the first           *)
(* satisfying one among the other expectations, registered before or after *)
(* it.                                                                     *)
(***************************************************************************)
C23_BadPatternDisabled ==
    /\ last.op \in {"build", "setup"} =>
          /\ \E e \in Registered : e.id = last.id
          /\ last.op = "setup" => last.status = 201
    /\ \A e \in Registered : BadPattern(e) => e.path_regex = None
    /\ Dispatched =>
          /\ IsSome(last.found) => ~BadPattern(Unwrap(last.found))
          /\ last.found =
                FindMatchingExpectation(
                    WithoutBadPatterns(Bucket(last.request.method)),
                    last.request.method, last.request.path, last.record.query_params,
                    HeaderMapOf(last.request.headers), last.record.body)

\* An expectation with the pattern "/(*" was registered first and passed
\* over by a request for a path it would stand for, "/(" followed by
\* anything; the request was answered by an expectation registered after it.
C23_Witness ==
    /\ Dispatched
    /\ IsSome(last.found)
    /\ \E e \in Registered :
          /\ BadPattern(e)
          /\ e.id < Unwrap(last.found).id
          /\ Instantiates(e.path, last.request.path)

(***************************************************************************)
(* SpecCache: file-backed and conditional expectations with preloading,    *)
(* dispatches, counting, clearing and reset, calls made one at a time.     *)
(***************************************************************************)
CacheChains ==
    { FileChain("GET", PathA, "user.json"),
      FileChain("GET", PathA, "notes.txt"),
      FileChain("GET", PathB, "missing.json"),
      ConditionalChain("POST", PathA, "counter"),
      Chain("POST", PathAStar, EmptyMap, EmptyMap, None, 200) }

CacheRequests ==
    { Request("GET", PathA, <<>>, EmptyMap, RawEmpty),
      Request("GET", PathB, <<>>, EmptyMap, RawEmpty),
      Request("POST", PathA, <<>>, EmptyMap, RawEmpty) }

InitCache == InitWith({1})

NextCache ==
    \/ \E b \in CacheChains : uuid < MaxUuid - 1 /\ Build(b)
    \/ SpawnedAddConditionalResponse
    \/ PreloadFileContent
    \/ \E req \in CacheRequests : clock < CacheDispatches /\ HandleDynamicRequest(req)
    \/ \E req \in CacheRequests : CallCountCalls(req.method, req.path)
    \/ ClearRequestLog
    \/ Reset

SpecCache == InitCache /\ [][NextCache]_vars

\* The branches of create_response that call fs::read_to_string.
FileSources == {"file_json", "file_text", "read_error"}

\* This step is a dispatch answered from expectation id, and it reads the file.
DispatchReads(id) ==
    /\ clock' # clock
    /\ IsSome(last'.found)
    /\ Unwrap(last'.found).id = id
    /\ last'.response.source \in FileSources

\* The file-content cache of a template.
CacheOf(exp) == <<exp.response.cached_file_content, exp.response.cached_json_content>>

(***************************************************************************)
(* C24: file content is read at most once per template.  Once a template's *)
(* file-content cache is populated, no later resolution and no later       *)
(* preload of that template calls the file reader again, and the cached    *)
(* value never changes.                                                    *)
(***************************************************************************)
C24_ReadOnce ==
    [][\A m \in DOMAIN expectations : \A i \in 1..Len(expectations[m]) :
          LET e == expectations[m][i]
          IN IsSome(e.response.cached_file_content) =>
                /\ ~DispatchReads(e.id)
                /\ ~(PreloadFileContent /\ e.id \in last'.read)
                /\ (m \in DOMAIN expectations' /\ i <= Len(expectations'[m])) =>
                      CacheOf(expectations'[m][i]) = CacheOf(e)]_vars

(***************************************************************************)
(* C25: resolution copies the headers verbatim.  The headers of the        *)
(* response to a matched request are exactly the headers of the matched    *)
(* template, each once: resolution adds no header of its own, no           *)
(* Content-Type for a file body that parses as JSON in particular, and     *)
(* duplicates none.                                                        *)
(***************************************************************************)
C25_HeadersVerbatim ==
    (Dispatched /\ IsSome(last.found) /\ last.response.source # "read_error") =>
        last.response.headers = HeaderBag(Unwrap(last.found).response.headers)

\* The match rules of an expectation, with its identity and method bucket.
RulesOf(exp) ==
    [id |-> exp.id, method |-> exp.method, path |-> exp.path,
     query_params |-> exp.query_params, headers |-> exp.headers, body |-> exp.body]

\* An expectation with its file-content cache left out.
WithoutCache(exp) ==
    [exp EXCEPT !.response.cached_file_content = None,
                !.response.cached_json_content = None]

\* The expectation the dispatch of this step answered from, if any.
AnsweredBy(exp) == IsSome(last'.found) /\ Unwrap(last'.found).id = exp.id

(***************************************************************************)
(* C26: dispatch frame.  A dispatch changes only the ledger, by one append *)
(* plus any eviction, and, on a match, the conditional counter or the file *)
(* cache of the matched expectation.  It adds, removes and reorders no     *)
(* expectation, changes no expectation's method, path, query, header or    *)
(* body rule, and no other expectation's counter.                          *)
(***************************************************************************)
C26_DispatchFrame ==
    [][clock' # clock =>
          /\ request_log' = LastN(Append(request_log, last'.record), max_request_log_size)
          /\ DOMAIN expectations' = DOMAIN expectations
          /\ \A m \in DOMAIN expectations :
                /\ Len(expectations'[m]) = Len(expectations[m])
                /\ \A i \in 1..Len(expectations[m]) :
                      LET e == expectations[m][i]
                          after == expectations'[m][i]
                      IN /\ RulesOf(after) = RulesOf(e)
                         /\ WithoutCache(after) = WithoutCache(e)
                         /\ after # e => AnsweredBy(e)
          /\ DOMAIN conditional_responses' = DOMAIN conditional_responses
          /\ \A id \in DOMAIN conditional_responses :
                conditional_responses'[id] # conditional_responses[id] =>
                    /\ IsSome(last'.found)
                    /\ Unwrap(last'.found).response.conditional_id = Some(id)
          /\ UNCHANGED <<max_request_log_size, spawned, uuid>>]_vars

\* The second dispatch, which evicted the record of the first, was answered
\* from a conditional expectation whose generator is registered, with a
\* file-backed expectation registered before it.
C26_Witness ==
    /\ Dispatched
    /\ clock = CacheDispatches
    /\ Len(request_log) < Len(appended)
    /\ IsSome(last.found)
    /\ IsSome(Unwrap(last.found).response.conditional_id)
    /\ Unwrap(Unwrap(last.found).response.conditional_id) \in DOMAIN conditional_responses
    /\ \E e \in Registered : IsSome(e.response.body_file) /\ e.id < Unwrap(last.found).id

\* Every bucket of this step's registry is, up to the file-content caches, a
\* prefix of the bucket of the same method in the next registry.
BucketsGrow ==
    \A m \in DOMAIN expectations :
        /\ m \in DOMAIN expectations'
        /\ Len(expectations[m]) <= Len(expectations'[m])
        /\ \A i \in 1..Len(expectations[m]) :
              /\ RulesOf(expectations'[m][i]) = RulesOf(expectations[m][i])
              /\ WithoutCache(expectations'[m][i]) = WithoutCache(expectations[m][i])

(***************************************************************************)
(* C27: the registry only grows between resets.  Across add, dispatch,     *)
(* preload, count and clear_request_log, each method bucket's earlier      *)
(* sequence is a prefix of its later one: nothing is removed, replaced or  *)
(* reordered, and no match rule is edited.  Only reset shrinks the         *)
(* registry, and then to empty.                                            *)
(***************************************************************************)
C27_RegistryGrows ==
    [][IF Reset THEN expectations' = EmptyRegistry ELSE BucketsGrow]_vars

\* A second expectation was added to a bucket whose first expectation has
\* been preloaded, after a dispatch.
C27_Witness ==
    /\ last.op = "build"
    /\ clock > 0
    /\ \E m \in DOMAIN expectations :
          /\ Len(expectations[m]) = 2
          /\ expectations[m][2].id = last.id
          /\ IsSome(expectations[m][1].response.cached_file_content)

(***************************************************************************)
(* SpecLocks: the two tokio::sync::RwLock of the server, lock by lock.     *)
(* A task at pc[t] with local[t].waits = Some(<<lock, mode>>) is suspended *)
(* in lock.read().await or lock.write().await; local[t].ticket is its      *)
(* place in the lock's queue (tokio's RwLock is fair: first come, first    *)
(* served) and local[t].holds the guards it has not dropped yet.           *)
(***************************************************************************)
Registry == "expectations"
Ledger == "request_log"

HoldsOf(t) == IF pc[t] = "idle" THEN {} ELSE local[t].holds
WaitsOf(t) == IF pc[t] = "idle" THEN None ELSE local[t].waits

\* The tasks queued on a lock.
Queue(lock) == {t \in Tasks : IsSome(WaitsOf(t)) /\ Unwrap(WaitsOf(t))[1] = lock}

\* The local state of a task that arrives at lock.read() / lock.write().
Arrive(frame, lock, mode) ==
    [frame EXCEPT !.waits = Some(<<lock, mode>>),
                  !.ticket = Cardinality(Queue(lock)) + 1]

\* A read guard handed out next to a write guard.
Compatible_DirtyRead(t, lock, mode) ==
    \/ mode = "read"
    \/ \A u \in Tasks \ {t} : \A h \in HoldsOf(u) : h[1] # lock

\* RwLock: any number of read guards, or one write guard.
Compatible(t, lock, mode) ==
    \A u \in Tasks \ {t} : \A h \in HoldsOf(u) :
        h[1] = lock => (mode = "read" /\ h[2] = "read")

\* A guard that is not dropped at the end of its scope.
Drop_Keep(holds, lock) == holds

\* The end of a lock scope: the guard is dropped.
Drop(holds, lock) == {h \in holds : h[1] # lock}

\* The task at the head of a lock's queue is handed the guard.
Acquire(t) ==
    /\ IsSome(WaitsOf(t))
    /\ local[t].ticket = 1
    /\ LET lock == Unwrap(local[t].waits)[1]
           mode == Unwrap(local[t].waits)[2]
       IN /\ Compatible(t, lock, mode)
          /\ local' = [u \in Tasks |->
                          IF u = t
                          THEN [local[t] EXCEPT !.holds = @ \cup {<<lock, mode>>},
                                                !.waits = None, !.ticket = 0]
                          ELSE IF u \in Queue(lock)
                          THEN [local[u] EXCEPT !.ticket = @ - 1]
                          ELSE local[u]]
    /\ UNCHANGED <<expectations, request_log, max_request_log_size,
                   conditional_responses, spawned, uuid, clock, pc, last, appended,
                   matched>>

\* The task is at position p and holds the guard it asked for there.
Inside(t, p) == pc[t] = p /\ local[t].waits = None

Frame(op) == [op |-> op, holds |-> {}, waits |-> None, ticket |-> 0]

\* handle_dynamic_request up to request_log.write().await in record_request;
\* the record is built, with its timestamp, before the lock is asked for.
LockStartDispatch(t, req) ==
    LET record == RequestRecordNew(req.method, req.path, ExtractQueryParams(req.query),
                                   ExtractHeaders(HeaderMapOf(req.headers)),
                                   ExtractBody(req.body), clock + 1)
    IN /\ pc[t] = "idle"
       /\ clock' = clock + 1
       /\ pc' = [pc EXCEPT ![t] = "record_request"]
       /\ local' = [local EXCEPT ![t] =
                       Arrive([op |-> "dispatch", request |-> req, record |-> record,
                               snapshot |-> <<>>, holds |-> {}, waits |-> None,
                               ticket |-> 0], Ledger, "write")]
       /\ UNCHANGED <<expectations, request_log, max_request_log_size,
                      conditional_responses, spawned, uuid, last, appended, matched>>

\* record_request: request_log.push(record)
LockPush(t) ==
    /\ Inside(t, "record_request")
    /\ request_log' = Append(request_log, local[t].record)
    /\ appended' = Append(appended, local[t].record)
    /\ pc' = [pc EXCEPT ![t] = "trim"]
    /\ UNCHANGED <<expectations, max_request_log_size, conditional_responses, spawned,
                   uuid, clock, local, last, matched>>

\* record_request: the trim, the end of the scope of the write guard, and
\* expectations.read().await in get_expectations
LockTrim(t) ==
    /\ pc[t] = "trim"
    /\ request_log' = DrainOldest(request_log, max_request_log_size)
    /\ pc' = [pc EXCEPT ![t] = "get_expectations"]
    /\ local' = [local EXCEPT ![t] =
                    Arrive([local[t] EXCEPT !.holds = Drop(@, Ledger)], Registry, "read")]
    /\ UNCHANGED <<expectations, max_request_log_size, conditional_responses, spawned,
                   uuid, clock, last, appended, matched>>

\* get_expectations, under the read guard
LockGetExpectations(t) ==
    /\ Inside(t, "get_expectations")
    /\ \E bucket_order \in BucketOrders(expectations) :
          local' = [local EXCEPT ![t].snapshot = GetExpectations(expectations, bucket_order),
                                 ![t].holds = Drop(@, Registry)]
    /\ pc' = [pc EXCEPT ![t] = "respond"]
    /\ UNCHANGED <<expectations, request_log, max_request_log_size,
                   conditional_responses, spawned, uuid, clock, last, appended, matched>>

\* handle_dynamic_request, after the locks: match over the snapshot and answer.
LockRespond(t) ==
    LET req == local[t].request
        found == FindMatchingExpectation(local[t].snapshot, req.method, req.path,
                                         ExtractQueryParams(req.query),
                                         HeaderMapOf(req.headers), ExtractBody(req.body))
        response == IF IsSome(found) THEN CreateResponse(Unwrap(found))
                    ELSE NotFoundResponse
    IN /\ pc[t] = "respond"
       /\ last' = [op |-> "dispatch", request |-> req, record |-> local[t].record,
                   found |-> found, response |-> response]
       /\ pc' = [pc EXCEPT ![t] = "idle"]
       /\ local' = [local EXCEPT ![t] = Idle]
       /\ UNCHANGED <<expectations, request_log, max_request_log_size,
                      conditional_responses, spawned, uuid, clock, appended, matched>>

\* build() up to expectations.write().await in add_expectation
LockStartAddExpectation(t, b) ==
    /\ pc[t] = "idle"
    /\ uuid' = uuid + 1
    /\ pc' = [pc EXCEPT ![t] = "add_expectation"]
    /\ local' = [local EXCEPT ![t] =
                    Arrive([op |-> "add_expectation",
                            expectation |-> BuiltExpectation(uuid + 1, uuid + 2, b),
                            holds |-> {}, waits |-> None, ticket |-> 0],
                           Registry, "write")]
    /\ UNCHANGED <<expectations, request_log, max_request_log_size,
                   conditional_responses, spawned, clock, last, appended, matched>>

\* add_expectation, under the write guard
LockAddExpectation(t) ==
    /\ Inside(t, "add_expectation")
    /\ expectations' = AddExpectation(expectations, local[t].expectation)
    /\ pc' = [pc EXCEPT ![t] = "idle"]
    /\ local' = [local EXCEPT ![t] = Idle]
    /\ UNCHANGED <<request_log, max_request_log_size, conditional_responses, spawned,
                   uuid, clock, last, appended, matched>>

\* reset up to expectations.write().await
LockStartReset(t) ==
    /\ pc[t] = "idle"
    /\ pc' = [pc EXCEPT ![t] = "reset"]
    /\ local' = [local EXCEPT ![t] = Arrive(Frame("reset"), Registry, "write")]
    /\ UNCHANGED <<expectations, request_log, max_request_log_size,
                   conditional_responses, spawned, uuid, clock, last, appended, matched>>

\* reset: the first scope, its end, and request_log.write().await
LockResetExpectations(t) ==
    /\ Inside(t, "reset")
    /\ expectations' = ResetExpectations(expectations)
    /\ pc' = [pc EXCEPT ![t] = "reset_request_log"]
    /\ local' = [local EXCEPT ![t] =
                    Arrive([local[t] EXCEPT !.holds = Drop(@, Registry)], Ledger, "write")]
    /\ UNCHANGED <<request_log, max_request_log_size, conditional_responses, spawned,
                   uuid, clock, last, appended, matched>>

\* reset: the second scope
LockResetRequestLog(t) ==
    /\ Inside(t, "reset_request_log")
    /\ request_log' = ResetRequestLog(request_log)
    /\ appended' = <<>>
    /\ pc' = [pc EXCEPT ![t] = "idle"]
    /\ local' = [local EXCEPT ![t] = Idle]
    /\ UNCHANGED <<expectations, max_request_log_size, conditional_responses, spawned,
                   uuid, clock, last, matched>>

\* clear_request_log up to request_log.write().await
LockStartClearRequestLog(t) ==
    /\ pc[t] = "idle"
    /\ pc' = [pc EXCEPT ![t] = "clear_request_log"]
    /\ local' = [local EXCEPT ![t] = Arrive(Frame("clear_request_log"), Ledger, "write")]
    /\ UNCHANGED <<expectations, request_log, max_request_log_size,
                   conditional_responses, spawned, uuid, clock, last, appended, matched>>

\* clear_request_log, under the write guard
LockClearRequestLog(t) ==
    /\ Inside(t, "clear_request_log")
    /\ request_log' = <<>>
    /\ appended' = <<>>
    /\ pc' = [pc EXCEPT ![t] = "idle"]
    /\ local' = [local EXCEPT ![t] = Idle]
    /\ UNCHANGED <<expectations, max_request_log_size, conditional_responses, spawned,
                   uuid, clock, last, matched>>

\* count_calls or get_request_log up to request_log.read().await
LockStartRead(t, op) ==
    /\ pc[t] = "idle"
    /\ pc' = [pc EXCEPT ![t] = op]
    /\ local' = [local EXCEPT ![t] = Arrive(Frame(op), Ledger, "read")]
    /\ UNCHANGED <<expectations, request_log, max_request_log_size,
                   conditional_responses, spawned, uuid, clock, last, appended, matched>>

\* count_calls("GET", "/a"), under the read guard.  seen is the number of
\* records the ledger holds while it is counted.
LockCountCalls(t) ==
    /\ Inside(t, "count_calls")
    /\ last' = [op |-> "count_calls", method |-> "GET", path |-> PathA,
                actual |-> CountCalls(request_log, "GET", PathA),
                seen |-> Len(request_log)]
    /\ pc' = [pc EXCEPT ![t] = "idle"]
    /\ local' = [local EXCEPT ![t] = Idle]
    /\ UNCHANGED <<expectations, request_log, max_request_log_size,
                   conditional_responses, spawned, uuid, clock, appended, matched>>

\* get_request_log, under the read guard.  pushed is the history of the
\* records pushed since the last clear, at the time of the call.
LockGetRequestLog(t) ==
    /\ Inside(t, "get_request_log")
    /\ last' = [op |-> "get_request_log", log |-> request_log, pushed |-> appended]
    /\ pc' = [pc EXCEPT ![t] = "idle"]
    /\ local' = [local EXCEPT ![t] = Idle]
    /\ UNCHANGED <<expectations, request_log, max_request_log_size,
                   conditional_responses, spawned, uuid, clock, appended, matched>>

LockChains == { Chain("GET", PathA, EmptyMap, EmptyMap, None, 200) }

LockRequests == { Request("GET", PathA, <<>>, EmptyMap, RawEmpty) }

InitLocks == InitWith({1})

\* The steps a task takes once its call has started.
TaskStep(t) ==
    \/ Acquire(t)
    \/ LockPush(t)
    \/ LockTrim(t)
    \/ LockGetExpectations(t)
    \/ LockRespond(t)
    \/ LockAddExpectation(t)
    \/ LockResetExpectations(t)
    \/ LockResetRequestLog(t)
    \/ LockClearRequestLog(t)
    \/ LockCountCalls(t)
    \/ LockGetRequestLog(t)

NextLocks ==
    \/ \E t \in Tasks, req \in LockRequests :
          clock < LockDispatches /\ LockStartDispatch(t, req)
    \/ \E t \in Tasks, b \in LockChains :
          uuid < MaxUuid - 2 /\ LockStartAddExpectation(t, b)
    \/ \E t \in Tasks : LockStartReset(t)
    \/ \E t \in Tasks : LockStartClearRequestLog(t)
    \/ \E t \in Tasks, op \in {"count_calls", "get_request_log"} : LockStartRead(t, op)
    \/ \E t \in Tasks : TaskStep(t)

SpecLocks == InitLocks /\ [][NextLocks]_vars

\* The tokio runtime polls every task that can make progress.
SpecLocksFair == SpecLocks /\ \A t \in Tasks : WF_vars(TaskStep(t))

\* No task holds the write guard of the ledger.
LedgerQuiet == \A t \in Tasks : <<Ledger, "write">> \notin HoldsOf(t)

(***************************************************************************)
(* C28: append and trim are one atomic step.  Under any interleaving of    *)
(* concurrent dispatches and readers, no get_request_log or count_calls    *)
(* observes a ledger of more than max_request_log_size records, and the    *)
(* ledger they can observe is a contiguous suffix, in append order, of the *)
(* records appended since the last clear.                                  *)
(***************************************************************************)
C28_AppendTrimAtomic ==
    /\ LedgerQuiet =>
          /\ Len(request_log) <= max_request_log_size
          /\ request_log = LastN(appended, Len(request_log))
    /\ \A t \in Tasks :
          (pc[t] \in {"count_calls", "get_request_log"} /\ HoldsOf(t) # {}) => LedgerQuiet
    /\ last.op = "count_calls" => last.seen <= max_request_log_size
    /\ last.op = "get_request_log" =>
          /\ Len(last.log) <= max_request_log_size
          /\ last.log = LastN(last.pushed, Len(last.log))

\* A dispatch has pushed its record onto a full ledger and not trimmed it yet;
\* a get_request_log called by another task in that window is kept waiting.
C28_Witness ==
    \E t, u \in Tasks :
        /\ pc[u] = "trim"
        /\ Len(request_log) > max_request_log_size
        /\ pc[t] = "get_request_log"
        /\ local[t].waits = Some(<<Ledger, "read">>)

\* No task is suspended on one lock with a guard of the other in hand.
NoHoldAndWait == \A t \in Tasks : IsSome(WaitsOf(t)) => HoldsOf(t) = {}

(***************************************************************************)
(* C29: no deadlock and eventual completion.  In every interleaving of     *)
(* dispatch, add_expectation, reset, clear_request_log, count_calls and    *)
(* get_* no task holds one of the two locks while it waits for the other,  *)
(* and under fair scheduling every started operation completes.            *)
(***************************************************************************)
C29_NoDeadlock ==
    /\ []NoHoldAndWait
    /\ \A t \in Tasks : (pc[t] # "idle") ~> (pc[t] = "idle")

\* A reset that has cleared the registry waits for the ledger, whose write
\* guard a dispatch holds.
C29_Witness ==
    \E t, u \in Tasks :
        /\ pc[t] = "reset_request_log"
        /\ local[t].waits = Some(<<Ledger, "write">>)
        /\ pc[u] = "trim"

\* What the match engine finds for req among the expectations that
\* get_expectations_by_method returns for the request's method.
FindsByMethod(exps, req) ==
    FindMatchingExpectation(GetExpectationsByMethod(exps, req.method), req.method,
                            req.path, ExtractQueryParams(req.query),
                            HeaderMapOf(req.headers), ExtractBody(req.body))

(***************************************************************************)
(* C30: snapshot equivalence.  For every registry and every request,       *)
(* matching over the full snapshot of get_expectations, in whatever order  *)
(* it lists the method buckets, with the method filter of the match        *)
(* engine, selects the same expectation as matching over                   *)
(* get_expectations_by_method(request method); the latter returns that     *)
(* method's expectations in registration order, and nothing for a method   *)
(* without a bucket.                                                       *)
(***************************************************************************)
C30_SnapshotEquivalence ==
    /\ \A req \in MatchRequests :
          /\ \A bucket_order \in BucketOrders(expectations) :
                Finds(expectations, bucket_order, req) = FindsByMethod(expectations, req)
          /\ LET by_method == GetExpectationsByMethod(expectations, req.method)
             IN /\ \A i, j \in 1..Len(by_method) : i < j => by_method[i].id < by_method[j].id
                /\ \A i \in 1..Len(by_method) : by_method[i].method = req.method
                /\ {by_method[i] : i \in 1..Len(by_method)}
                      = {e \in Registered : e.method = req.method}
    /\ Dispatched => last.found = FindsByMethod(expectations, last.request)

\* Two buckets hold three expectations, so that the full snapshot comes in
\* two orders; the request was answered by the expectation registered last,
\* and the method of another request has no bucket at all.
C30_Witness ==
    /\ Dispatched
    /\ Cardinality(DOMAIN expectations) = 2
    /\ Cardinality(Registered) = 3
    /\ IsSome(last.found)
    /\ \A e \in Registered : e.id <= Unwrap(last.found).id
    /\ \E req \in MatchRequests : req.method \notin DOMAIN expectations

(***************************************************************************)
(* C31: matching is deterministic.  What a dispatch selects is a function  *)
(* of the request and of the registry contents alone: it is the same in    *)
(* whatever order the method buckets are listed, whatever the ledger holds *)
(* and whatever was dispatched before, and a second dispatch of the same   *)
(* request against the same registry selects the same expectation, or      *)
(* yields NotFound again.                                                  *)
(***************************************************************************)
C31_MatchingDeterministic ==
    [][clock' # clock =>
          /\ \A bucket_order \in BucketOrders(expectations) :
                last'.found = Finds(expectations, bucket_order, last'.request)
          /\ (last.op = "dispatch" /\ last.request = last'.request) =>
                /\ last'.found = last.found
                /\ last'.response = last.response]_vars

\* The same request was dispatched twice in a row against a registry of two
\* method buckets and answered both times, the second time with the record of
\* the first in the ledger.
C31_Witness ==
    /\ Dispatched
    /\ clock = CacheDispatches
    /\ Len(appended) = CacheDispatches
    /\ appended[1].method = appended[2].method
    /\ appended[1].path = appended[2].path
    /\ Cardinality(DOMAIN expectations) = 2
    /\ IsSome(last.found)

\* The conditional id of the expectation a dispatch selected, if it has one.
SelectedConditional(found) ==
    IF IsSome(found) THEN Unwrap(found).response.conditional_id ELSE None

(***************************************************************************)
(* C32: counters are per expectation.  A dispatch that matches a           *)
(* conditional expectation advances the counter of that expectation's      *)
(* generator by one and no other counter; a dispatch that matches another  *)
(* expectation, or nothing, leaves the counter as it was.                  *)
(***************************************************************************)
C32_CountersPerExpectation ==
    [][clock' # clock =>
          \A cond_id \in DOMAIN conditional_responses :
              conditional_responses'[cond_id].call_count =
                  IF SelectedConditional(last'.found) = Some(cond_id)
                  THEN conditional_responses[cond_id].call_count + 1
                  ELSE conditional_responses[cond_id].call_count]_vars

\* The headers of the last dispatched request, as sent, whose name equals
\* key up to letter case.
CarriedAs(key) ==
    {h \in DOMAIN last.request.headers : ToLowercase(h) = ToLowercase(key)}

(***************************************************************************)
(* C33: header names are matched case-insensitively and values             *)
(* case-sensitively.  The builder stores every required header name in     *)
(* lower case; a request that carries every required header under a name   *)
(* equal up to letter case, with an identical value, passes the header     *)
(* predicate, and the dispatch never answers from an expectation of which  *)
(* a required header is carried with a value that differs in any           *)
(* character, letter case included.                                        *)
(***************************************************************************)
C33_HeaderCase ==
    /\ last.op = "build" =>
          \A e \in Registered :
              e.id = last.id => \A k \in DOMAIN e.headers : k = ToLowercase(k)
    /\ Dispatched =>
          \A e \in Registered :
              /\ (/\ PassesAllButHeaders(e)
                  /\ \A k \in DOMAIN e.headers :
                        \E h \in CarriedAs(k) :
                            /\ IsSome(ToStr(last.request.headers[h]))
                            /\ last.request.headers[h] = e.headers[k])
                    => IsSome(last.found)
              /\ (last.found = Some(e)) =>
                    \A k \in DOMAIN e.headers :
                        /\ CarriedAs(k) # {}
                        /\ \A h \in CarriedAs(k) : last.request.headers[h] = e.headers[k]

\* An expectation built with the names "X-API-Key" and "Authorization"
\* answered a request that carries them in upper case.
C33_Witness ==
    /\ Dispatched
    /\ IsSome(last.found)
    /\ DOMAIN Unwrap(last.found).headers = {"x-api-key", "authorization"}
    /\ DOMAIN last.request.headers = {"X-API-KEY", "AUTHORIZATION"}

\* A request carrying the required headers with the value of one in another
\* letter case went past the expectation built with them.
C33_WitnessValueDiffers ==
    /\ Dispatched
    /\ "X-API-KEY" \in DOMAIN last.request.headers
    /\ last.request.headers["X-API-KEY"] = "K"
    /\ \E e \in Registered :
          /\ DOMAIN e.headers = {"x-api-key", "authorization"}
          /\ PassesAllButHeaders(e)
          /\ last.found # Some(e)

(***************************************************************************)
(* C34: a conditional expectation is never visible without its generator.  *)
(* Once build() has returned, every dispatch that selects the expectation  *)
(* finds the generator registered under the expectation's conditional id.  *)
(***************************************************************************)
C34_GeneratorBeforeVisible ==
    [][clock' # clock =>
          (IsSome(SelectedConditional(last'.found)) =>
              Unwrap(SelectedConditional(last'.found)) \in DOMAIN conditional_responses)]_vars

\* The record is among the entries of the ledger.
InLedger(record) == \E i \in 1..Len(request_log) : request_log[i] = record

\* The resets that have returned.
ReturnedResets == {t \in Tasks : local[t].op = "reset" /\ pc[t] = "idle"}

(***************************************************************************)
(* C35: dispatch racing with reset.  If the record of a dispatch is still  *)
(* in the ledger after a reset has returned, the dispatch appended it      *)
(* after the reset began and took its registry snapshot after the reset    *)
(* cleared the registry: the snapshot holds, and the dispatch was answered *)
(* from, no expectation registered before the reset began.                 *)
(***************************************************************************)
C35_DispatchAfterReset ==
    \A t \in ReturnedResets :
        /\ (last.op = "dispatch" /\ InLedger(last.record)) =>
              /\ last.record.timestamp > local[t].clock_at_start
              /\ IsSome(last.found) => Unwrap(last.found).id > local[t].uuid_at_start
        /\ \A u \in Tasks :
              (pc[u] = "respond" /\ InLedger(local[u].record)) =>
                  \A i \in 1..Len(local[u].snapshot) :
                      local[u].snapshot[i].id > local[t].uuid_at_start

\* A reset that had expectations and records to clear has returned, and a
\* dispatch whose record is in the ledger was answered from an expectation
\* registered since.
C35_Witness ==
    /\ last.op = "dispatch"
    /\ InLedger(last.record)
    /\ IsSome(last.found)
    /\ \E t \in ReturnedResets :
          /\ local[t].had_expectations
          /\ local[t].had_records

(***************************************************************************)
(* SpecAdmin: the routes of create_router.  POST /_setup, POST /_verify    *)
(* and POST /_reset go to their handlers; every other request falls back   *)
(* to handle_dynamic_request.                                              *)
(***************************************************************************)
NextAdmin ==
    \/ \E b \in ConcChains : uuid < MaxUuid - 1 /\ Build(b)
    \/ SpawnedAddConditionalResponse
    \/ \E req \in ConcSetups : uuid < MaxUuid - 1 /\ HandleSetup(req)
    \/ \E req \in VerifyRequests : HandleVerify(req)
    \/ Reset
    \/ \E req \in ConcRequests : clock < ConcDispatches /\ HandleDynamicRequest(req)

SpecAdmin == InitConc /\ [][NextAdmin]_vars

\* The step handles a call to one of the three API routes.
AdminCall ==
    \/ \E req \in ConcSetups : HandleSetup(req)
    \/ \E req \in VerifyRequests : HandleVerify(req)
    \/ Reset

(***************************************************************************)
(* C36: administrative calls are not traffic.  Handling a setup, verify or *)
(* reset call appends no record to the ledger (the ledger is left as it    *)
(* was, or emptied by a reset) and advances no conditional counter, so a   *)
(* verify call repeated for the same method and path reports the same      *)
(* actual count as the one before it.                                      *)
(***************************************************************************)
C36_AdminNotTraffic ==
    [][AdminCall =>
          /\ request_log' = request_log \/ (Reset /\ request_log' = <<>>)
          /\ clock' = clock
          /\ conditional_responses' = conditional_responses
          /\ (/\ last.op = "verify"
              /\ last'.op = "verify"
              /\ last'.response.method = last.response.method
              /\ last'.response.path = last.response.path)
                => last'.response.actual = last.response.actual]_vars

\* A verify call followed a verify call for the same endpoint, with a record
\* of that endpoint in the ledger and a generator registered.
C36_Witness ==
    /\ last.op = "verify"
    /\ last.response.actual = 1
    /\ last.response.expected = 2
    /\ Len(request_log) = ConcDispatches
    /\ DOMAIN conditional_responses # {}

(***************************************************************************)
(* SpecStatus: templates whose status_code lies at and around the ends of  *)
(* the range StatusCode::from_u16 accepts, up to the largest u16, with an  *)
(* inline body, a readable file or a missing file.                         *)
(***************************************************************************)
StatusCodes == {0, 99, 100, 404, 999, 1000, 65535}

StatusChains ==
    { [Chain("GET", PathA, EmptyMap, EmptyMap, None, status_code) EXCEPT
          !.json_file = json_file] :
      status_code \in StatusCodes,
      json_file \in {None, Some("user.json"), Some("missing.json")} }

StatusSetups == { SetupRequest("GET", PathA, status_code) : status_code \in StatusCodes }

NextStatus ==
    \/ \E b \in StatusChains : uuid < MaxUuid - 1 /\ Build(b)
    \/ \E req \in StatusSetups : uuid < MaxUuid - 1 /\ HandleSetup(req)
    \/ \E req \in ResponseRequests :
          clock < ResponseDispatches /\ HandleDynamicRequest(req)

SpecStatus == InitResponse /\ [][NextStatus]_vars

\* The status a template's status_code stands for: itself when it is a valid
\* HTTP status (100..=999), 200 otherwise.
ResolvedStatus(status_code) ==
    IF status_code \in 100..999 THEN status_code ELSE 200

C37_WitnessValid ==
    /\ Dispatched
    /\ IsSome(last.found)
    /\ Unwrap(last.found).response.status_code = 999
    /\ last.response.source = "file_json"
    /\ last.response.status = 999

\* The body of the last dispatched request has zero bytes or is not UTF-8.
NoUsableBody ==
    \/ last.request.body.kind \in {"empty", "invalid"}
    \/ last.request.body.kind = "utf8" /\ last.request.body.text = ""

(***************************************************************************)
(* C38: an empty request body is treated as absent.  A request whose body  *)
(* has zero bytes, or is not valid UTF-8, is recorded with no body and     *)
(* matched as having none: an expectation without a required body that     *)
(* passes the other predicates matches it, and it is never answered from   *)
(* an expectation with a required body, the empty string included.         *)
(***************************************************************************)
C38_EmptyBodyAbsent ==
    (Dispatched /\ NoUsableBody) =>
        /\ last.record.body = None
        /\ appended[Len(appended)].body = None
        /\ \A e \in Registered :
              /\ (PassesAllButBody(e) /\ e.body = None) => IsSome(last.found)
              /\ (last.found = Some(e)) => e.body = None

\* A request with a body of zero bytes went past an expectation that
\* requires the empty string and was answered by a later one that requires
\* no body.
C38_Witness ==
    /\ Dispatched
    /\ last.request.body = RawEmpty
    /\ IsSome(last.found)
    /\ \E e \in Registered :
          /\ e.body = Some("")
          /\ PassesAllButBody(e)
          /\ e.id < Unwrap(last.found).id

====
